---- MODULE Spec2Model ----
(***************************************************************************)
(* A model of the MHTML conversation converters (converter-suite.js and   *)
(* the command-line converters): the question/answer transcript format    *)
(* and its parser, the Markdown cleanup pass, the turn assembler of each  *)
(* converter, the output formatters and the segment scanners.             *)
(*                                                                         *)
(* A JavaScript string is a sequence of characters, each character a      *)
(* one-element TLA+ string.  A Hangul syllable is one character and is    *)
(* written by its romanisation ("jil" "mun" for U+C9C8 U+BB38), so the    *)
(* lengths of the source's literals are kept.  Offsets are 0-based, as in *)
(* JavaScript.                                                             *)
(***************************************************************************)
EXTENDS Integers, Sequences, FiniteSets, TLC

VARIABLES
    qaPairs,          \* the pairs handed to the qa-text formatter
    qaText,           \* the transcript text the formatter wrote
    parsedPairs,      \* what parseQaText / parseQa returned for qaText
    qaPc,             \* "pairs" -> "text" -> "parsed"
    mdFn,             \* the cleanup applied: "cleanGlmMarkdown" or "cleanMarkdown"
    mdText,           \* the text handed to the cleanup
    mdOnce,           \* the cleanup of mdText
    mdTwice,          \* the cleanup of mdOnce
    mdPc,             \* "text" -> "once" -> "twice"
    conv,             \* the converter assembling turns: "qa", "grok" or "glm"
    items,            \* the fragments in document order: [role, text], the
                      \* text being the fragment's rendered, cleaned text
    idx,              \* the index of the fragment the loop reads next
    currentQuestion,  \* <<>> for null, <<q>> for a pending question q
    currentAnswers,   \* the answer accumulator
    pairs,            \* the turns emitted so far
    output,           \* the formatted document
    pc,               \* "loop" -> "done" -> "formatted"
    html,             \* the main HTML document, as a sequence of tokens
    blockItems,       \* what extractBlocks returned for html
    grokBlocks,       \* what extractGrokBlocks / extractMessageBlocks returned
    segPc,            \* "html" -> "items" (extractBlocks) or "blocks" (the scan)
    mhtml,            \* the bytes of the MHTML file read
    mimeResult,       \* what parseMhtmlParts did: [error, parts]
    mainKind,         \* the function that chose the main HTML
    mainIndex,        \* the index of the part chosen, 0 for its exception
    mimePc,           \* "bytes" -> "parsed" -> "chosen"
    codecBytes,       \* the bytes that were encoded, or the bytes of the part
    codecType,        \* the contentType of the part
    codecText,        \* the quoted-printable text, or the data URI of the part
    codecOut,         \* the bytes decoded from codecText
    codecPc,          \* "qp" -> "qpDecoded", or "part" -> "uri" -> "decoded"
    cidParts,         \* the parts of the file: [contentId, contentLocation, contentType, bytes]
    docHasConv,       \* whether the document has a chat-window-content element
    docElems,         \* the elements of the main HTML that carry src, href or poster
    outElems,         \* the elements of the HTML written: [origin, value]
    outStyles,        \* the style elements written in the place of links: [origin, text]
    cidPc,            \* "doc" -> "html"
    tableFn,          \* the renderer: "glmNodeToMd", "tableToMarkdown" or "tableToMd"
    tableRows,        \* the tr elements of the table, each the texts of its th and td
    tableOut,         \* the Markdown the renderer returned
    tablePc,          \* "table" -> "rendered"
    decBytes,         \* the bytes handed to decodeBytes
    decHint,          \* the charset hint: <<>> for null, <<label>> for a string
    decOut,           \* <<>> for an exception, <<text>> for the string returned
    decPc,            \* "bytes" -> "decoded"
    page,             \* the page open: "suite" (converter-suite.js) or "web" (web_runner.js)
    inputFile,        \* <<>> for null, <<file>> for the file picked: [name, converts]
    outputDir,        \* whether the web page has an output folder picked
    outputName,       \* the value of the output name field
    outputBlob,       \* "null", or "blob" for the Blob of the last conversion
    status,           \* the message shown last: [text, cls]
    runs,             \* the runConvert calls that wait for the bytes of their file
    saves,            \* the saveWithPicker calls that wait for the save dialog
    written,          \* the files written and downloads started: [by, name]
    selectedConverterId, \* the id of the converter picked on the suite page
    outputOf,         \* <<>>, or <<[file, cv]>>: what the Blob in outputBlob was made from
    scanHtml,         \* the document given to the balanced-tag scan
    scanPos,          \* pos, the search position of the outer loop
    scanBlocks,       \* blocks, the fragments pushed so far
    scanStart,        \* start, the first character of the block being scanned
    scanRole,         \* the role read from the class attribute of that block
    scanDepth,        \* depth, the nesting depth of the inner loop
    scanK,            \* k, the cursor of the inner loop
    scanPc,           \* "outer", "inner" or "done"
    assetNodes,       \* the elements the renderer meets, in document order
    assetIdx,         \* the index of the next element
    imageSeq,         \* this.imageSeq
    inlineSvgSeq,     \* this.inlineSvgSeq
    assetFiles,       \* the names of the files written, in writing order
    assetPc,          \* "render" or "idle"
    listFn,           \* the renderer: "glmNodeToMd", "nodeToMd" or "nodeToMarkdown"
    listName,         \* the list element: "ol" or "ul"
    listDepth,        \* the depth the list is rendered at
    listChildren,     \* the children of the list element, each with its rendered content
    listOut,          \* the Markdown returned for the list
    listPc,           \* "node", "rendered" or "idle"
    shareCalls,       \* runConversion calls: input, tmpDir, Converter counters, position
    shareDisk,        \* files under os.tmpdir(): directory, name, data
    shareResults      \* what each finished call returned: input and output

qaVars == <<qaPairs, qaText, parsedPairs, qaPc>>

mdVars == <<mdFn, mdText, mdOnce, mdTwice, mdPc>>

turnVars == <<conv, items, idx, currentQuestion, currentAnswers, pairs, output, pc>>

segVars == <<html, blockItems, grokBlocks, segPc>>

mimeVars == <<mhtml, mimeResult, mainKind, mainIndex, mimePc>>

codecVars == <<codecBytes, codecType, codecText, codecOut, codecPc>>

cidVars == <<cidParts, docHasConv, docElems, outElems, outStyles, cidPc>>

tableVars == <<tableFn, tableRows, tableOut, tablePc>>

decVars == <<decBytes, decHint, decOut, decPc>>

runVars == <<page, inputFile, outputDir, outputName, outputBlob, status, runs, saves, written,
            selectedConverterId, outputOf>>

scanVars == <<scanHtml, scanPos, scanBlocks, scanStart, scanRole, scanDepth, scanK, scanPc>>

assetVars == <<assetNodes, assetIdx, imageSeq, inlineSvgSeq, assetFiles, assetPc>>

listVars == <<listFn, listName, listDepth, listChildren, listOut, listPc>>

shareVars == <<shareCalls, shareDisk, shareResults>>

vars == <<qaVars, mdVars, turnVars, segVars, mimeVars, codecVars, cidVars, tableVars, decVars, runVars, scanVars, assetVars, listVars, shareVars>>

\* the variables that the actions of one part of the model leave alone
exceptQa == <<mdVars, turnVars, segVars, mimeVars, codecVars, cidVars, tableVars, decVars, runVars, scanVars, assetVars, listVars, shareVars>>

exceptMd == <<qaVars, turnVars, segVars, mimeVars, codecVars, cidVars, tableVars, decVars, runVars, scanVars, assetVars, listVars, shareVars>>

exceptTurn == <<qaVars, mdVars, segVars, mimeVars, codecVars, cidVars, tableVars, decVars, runVars, scanVars, assetVars, listVars, shareVars>>

exceptSeg == <<qaVars, mdVars, turnVars, mimeVars, codecVars, cidVars, tableVars, decVars, runVars, scanVars, assetVars, listVars, shareVars>>

exceptMime == <<qaVars, mdVars, turnVars, segVars, codecVars, cidVars, tableVars, decVars, runVars, scanVars, assetVars, listVars, shareVars>>

exceptCodec == <<qaVars, mdVars, turnVars, segVars, mimeVars, cidVars, tableVars, decVars, runVars, scanVars, assetVars, listVars, shareVars>>

exceptCid == <<qaVars, mdVars, turnVars, segVars, mimeVars, codecVars, tableVars, decVars, runVars, scanVars, assetVars, listVars, shareVars>>

exceptTable == <<qaVars, mdVars, turnVars, segVars, mimeVars, codecVars, cidVars, decVars, runVars, scanVars, assetVars, listVars, shareVars>>

exceptDec == <<qaVars, mdVars, turnVars, segVars, mimeVars, codecVars, cidVars, tableVars, runVars, scanVars, assetVars, listVars, shareVars>>

exceptRun == <<qaVars, mdVars, turnVars, segVars, mimeVars, codecVars, cidVars, tableVars, decVars, scanVars, assetVars, listVars, shareVars>>

exceptScan == <<qaVars, mdVars, turnVars, segVars, mimeVars, codecVars, cidVars, tableVars, decVars, runVars, assetVars, listVars, shareVars>>

exceptAsset == <<qaVars, mdVars, turnVars, segVars, mimeVars, codecVars, cidVars, tableVars, decVars, runVars, scanVars, listVars, shareVars>>

exceptList == <<qaVars, mdVars, turnVars, segVars, mimeVars, codecVars, cidVars, tableVars, decVars, runVars, scanVars, assetVars, shareVars>>

exceptShare == <<qaVars, mdVars, turnVars, segVars, mimeVars, codecVars, cidVars, tableVars, decVars, runVars, scanVars, assetVars, listVars>>

(***************************************************************************)
(* Characters and string primitives                                        *)
(***************************************************************************)
LF == "\n"
CR == "\r"
TAB == "\t"
SP == " "

\* The characters String.prototype.trim removes, among those that occur here.
WhiteSpace == {SP, TAB, LF, CR}

\* s.slice(a, b) for 0 <= a <= b <= s.length
Slice(s, a, b) == SubSeq(s, a + 1, b)

StartsWith(s, p) == Len(p) <= Len(s) /\ SubSeq(s, 1, Len(p)) = p

EndsWith(s, p) == Len(p) <= Len(s) /\ SubSeq(s, Len(s) - Len(p) + 1, Len(s)) = p

RECURSIVE TrimStart(_)
TrimStart(s) ==
    IF s # <<>> /\ Head(s) \in WhiteSpace THEN TrimStart(Tail(s)) ELSE s

RECURSIVE TrimEnd(_)
TrimEnd(s) ==
    IF s # <<>> /\ s[Len(s)] \in WhiteSpace
    THEN TrimEnd(SubSeq(s, 1, Len(s) - 1))
    ELSE s

\* s.trim()
Trim(s) == TrimEnd(TrimStart(s))

\* The characters of s at the indexes of keep that lie in lo..hi, in order.
\* The recursion halves the range, so that long texts stay shallow.
RECURSIVE SelectRange(_, _, _, _)
SelectRange(s, keep, lo, hi) ==
    IF lo > hi THEN <<>>
    ELSE IF lo = hi THEN (IF lo \in keep THEN <<s[lo]>> ELSE <<>>)
    ELSE LET mid == (lo + hi) \div 2
         IN  SelectRange(s, keep, lo, mid) \o SelectRange(s, keep, mid + 1, hi)

Select(s, keep) == SelectRange(s, keep, 1, Len(s))

\* the indexes of s that satisfy a test, in increasing order
SortedIndexes(s, keep) == Select([n \in 1..Len(s) |-> n], keep)

RECURSIVE JoinRange(_, _, _, _)
JoinRange(parts, sep, lo, hi) ==
    IF lo > hi THEN <<>>
    ELSE IF lo = hi THEN parts[lo]
    ELSE LET mid == (lo + hi) \div 2
         IN  JoinRange(parts, sep, lo, mid) \o sep \o JoinRange(parts, sep, mid + 1, hi)

\* parts.join(sep)
Join(parts, sep) == JoinRange(parts, sep, 1, Len(parts))

\* text.split("\n"): the k-th line lies between the (k-1)-th and the k-th
\* line feed
SplitLf(s) ==
    LET at == SortedIndexes(s, {n \in 1..Len(s) : s[n] = LF})
    IN  [k \in 1..(Len(at) + 1) |->
            SubSeq(s, IF k = 1 THEN 1 ELSE at[k - 1] + 1,
                      IF k > Len(at) THEN Len(s) ELSE at[k] - 1)]

\* text.split(/\r?\n/): a carriage return directly before the line feed
\* belongs to the separator
SplitCrLf(s) ==
    LET at == SortedIndexes(s, {n \in 1..Len(s) : s[n] = LF})
    IN  [k \in 1..(Len(at) + 1) |->
            LET from == IF k = 1 THEN 1 ELSE at[k - 1] + 1
                to == IF k > Len(at) THEN Len(s) ELSE at[k] - 1
            IN  IF k <= Len(at) /\ to >= from /\ s[to] = CR
                THEN SubSeq(s, from, to - 1)
                ELSE SubSeq(s, from, to)]

\* s.replace(/\n+$/g, "")
RECURSIVE StripTrailingLf(_)
StripTrailingLf(s) ==
    IF s # <<>> /\ s[Len(s)] = LF
    THEN StripTrailingLf(SubSeq(s, 1, Len(s) - 1))
    ELSE s

\* the decimal digits of n >= 0, as the template literal `${n}` writes them
Digit(d) == <<"0", "1", "2", "3", "4", "5", "6", "7", "8", "9">>[d + 1]

RECURSIVE NumberToString(_)
NumberToString(n) ==
    IF n < 10 THEN <<Digit(n)>>
    ELSE Append(NumberToString(n \div 10), Digit(n % 10))

\* does sub occur in s
Contains(s, sub) ==
    \E a \in 0..(Len(s) - Len(sub)) : Slice(s, a, a + Len(sub)) = sub

(***************************************************************************)
(* The transcript literals                                                 *)
(***************************************************************************)
TurnOpen == <<"[", "T", "u", "r", "n", " ">>            \* "[Turn "
TurnClose == <<"]">>                                     \* "]"
QuestionMarker == <<"jil", "mun", ":">>                  \* U+C9C8 U+BB38 ":"
AnswerMarker == <<"dap", "byeon", ":">>                  \* U+B2F5 U+BCC0 ":"
NoQuestion == <<"(", "jil", "mun", " ", "eops", "eum", ")">>
NoAnswer == <<"(", "dap", "byeon", " ", "eops", "eum", ")">>

(***************************************************************************)
(* The qa-text formatter: convertMhtmlToQaTxt, and main of mhtml2txt.js    *)
(***************************************************************************)
\* the seven lines pushed for the i-th pair
QaTurnLines(ps, i) ==
    << TurnOpen \o NumberToString(i) \o TurnClose,
       QuestionMarker,
       ps[i][1],
       <<>>,
       AnswerMarker,
       ps[i][2],
       <<>> >>

RECURSIVE QaLinesFrom(_, _)
QaLinesFrom(ps, i) ==
    IF i > Len(ps) THEN <<>>
    ELSE QaTurnLines(ps, i) \o QaLinesFrom(ps, i + 1)

\* lines.join("\n") + "\n"
FormatQaTxt(ps) == Join(QaLinesFrom(ps, 1), <<LF>>) \o <<LF>>

(***************************************************************************)
(* The transcript parser: parseQaText (converter-suite.js), parseQa        *)
(***************************************************************************)
ParserInit ==
    [pairs |-> <<>>, questionLines |-> <<>>, answerLines |-> <<>>, state |-> "null"]

flush(p) ==
    [p EXCEPT
        !.pairs = IF p.questionLines # <<>> \/ p.answerLines # <<>>
                  THEN Append(p.pairs,
                              << StripTrailingLf(Join(p.questionLines, <<LF>>)),
                                 StripTrailingLf(Join(p.answerLines, <<LF>>)) >>)
                  ELSE p.pairs,
        !.questionLines = <<>>,
        !.answerLines = <<>>]

IsTurnDelimiter(line) == StartsWith(line, TurnOpen) /\ EndsWith(line, TurnClose)

\* one iteration of the loop over the lines
ParseLine(p, line) ==
    IF IsTurnDelimiter(line) THEN [flush(p) EXCEPT !.state = "null"]
    ELSE IF Trim(line) = QuestionMarker THEN [p EXCEPT !.state = "question"]
    ELSE IF Trim(line) = AnswerMarker THEN [p EXCEPT !.state = "answer"]
    ELSE IF p.state = "question"
         THEN [p EXCEPT !.questionLines = Append(@, line)]
    ELSE IF p.state = "answer"
         THEN [p EXCEPT !.answerLines = Append(@, line)]
    ELSE p

RECURSIVE ParseLines(_, _)
ParseLines(p, lines) ==
    IF lines = <<>> THEN p
    ELSE ParseLines(ParseLine(p, Head(lines)), Tail(lines))

\* a parser that forgets the flush after the last line
parseQaTextNoFinalFlush(text) == ParseLines(ParserInit, SplitCrLf(text)).pairs

parseQaText(text) == flush(ParseLines(ParserInit, SplitCrLf(text))).pairs

\* parseQa of the command-line text-to-html converter: the same loop
parseQa(text) == flush(ParseLines(ParserInit, SplitCrLf(text))).pairs

(***************************************************************************)
(* The Markdown cleanup: cleanGlmMarkdown (converter-suite.js) and         *)
(* cleanMarkdown (the GLM command-line converter)                          *)
(***************************************************************************)
LowerLetters ==
    << "a", "b", "c", "d", "e", "f", "g", "h", "i", "j", "k", "l", "m",
       "n", "o", "p", "q", "r", "s", "t", "u", "v", "w", "x", "y", "z" >>

UpperLetters ==
    << "A", "B", "C", "D", "E", "F", "G", "H", "I", "J", "K", "L", "M",
       "N", "O", "P", "Q", "R", "S", "T", "U", "V", "W", "X", "Y", "Z" >>

IsLetter(c) == \E n \in 1..26 : c = LowerLetters[n] \/ c = UpperLetters[n]   \* [A-Za-z]

IsDigit(c) == c \in {"0", "1", "2", "3", "4", "5", "6", "7", "8", "9"}      \* \d

IsWordChar(c) == IsLetter(c) \/ IsDigit(c) \/ c = "_"                       \* \w

IsLabelChar(c) == IsLetter(c) \/ IsDigit(c) \/ c = "-"                      \* [A-Za-z0-9-]

IsBlank(c) == c \in {SP, TAB}                                               \* [ \t]

LowerChar(c) ==
    IF \E n \in 1..26 : c = UpperLetters[n]
    THEN LowerLetters[CHOOSE n \in 1..26 : c = UpperLetters[n]]
    ELSE c

\* s.toLowerCase()
ToLowerCase(s) == [n \in 1..Len(s) |-> LowerChar(s[n])]

\* text.replace(/\r\n/g, "\n").replace(/\r/g, "\n"): a carriage return before
\* a line feed goes, every other one becomes a line feed
NormalizeLineBreaks(s) ==
    Select([n \in 1..Len(s) |-> IF s[n] = CR THEN LF ELSE s[n]],
           {n \in 1..Len(s) : ~(s[n] = CR /\ n < Len(s) /\ s[n + 1] = LF)})

\* the 1-based index after the longest run of characters of a class
\* that starts at index i
InClass(c, class) ==
    CASE class = "blank" -> IsBlank(c)
      [] class = "lf" -> c = LF
      [] class = "label" -> IsLabelChar(c)
      [] class = "letter" -> IsLetter(c)

RECURSIVE RunEnd(_, _, _)
RunEnd(s, i, class) ==
    IF i <= Len(s) /\ InClass(s[i], class) THEN RunEnd(s, i + 1, class) ELSE i

\* out.replace(/[ \t]+\n/g, "\n"): a blank goes when the run of blanks it is in
\* ends at a line feed
StripBlanksBeforeLf(s) ==
    Select(s, {n \in 1..Len(s) :
                  ~(IsBlank(s[n]) /\ LET e == RunEnd(s, n, "blank")
                                     IN  e <= Len(s) /\ s[e] = LF)})

\* out.replace(/\n{3,}/g, "\n\n"): of a run of three or more line feeds the
\* first two stay
CollapseBlankLines(s) ==
    Select(s, {n \in 1..Len(s) :
                  ~(s[n] = LF /\ n > 2 /\ s[n - 1] = LF /\ s[n - 2] = LF)})

\* out.replace(/[ \t]{2,}/g, " "): a run of two or more blanks becomes one
\* space, written in the place of its first blank
CollapseBlanks(s) ==
    Select([n \in 1..Len(s) |->
               IF IsBlank(s[n]) /\ n < Len(s) /\ IsBlank(s[n + 1]) THEN SP ELSE s[n]],
           {n \in 1..Len(s) : ~(IsBlank(s[n]) /\ n > 1 /\ IsBlank(s[n - 1]))})

\* /^\d{1,3}$/.test(s), for s without line breaks
IsFootnoteNumber(s) == Len(s) \in 1..3 /\ \A n \in 1..Len(s) : IsDigit(s[n])

\* The 1-based indexes that follow a "." closing i's run of one or more
\* (?:[A-Za-z0-9-]+\.) groups: after the first group, after the second, ...
RECURSIVE DomainGroupEnds(_, _)
DomainGroupEnds(s, i) ==
    LET l == RunEnd(s, i, "label")
    IN  IF l > i /\ l <= Len(s) /\ s[l] = "."
        THEN {l + 1} \cup DomainGroupEnds(s, l + 1)
        ELSE {}

\* [A-Za-z]{2,}\b(?!\)) at index d: the index after the match, or 0.  The
\* letters must run up to a character that is no word character and no ")".
DomainTldEnd(s, d) ==
    LET e == RunEnd(s, d, "letter")
    IN  IF e - d >= 2 /\ (e > Len(s) \/ (~IsWordChar(s[e]) /\ s[e] # ")"))
        THEN e ELSE 0

\* (?<!\()\b at index i, before a label character
DomainStartOk(s, i) ==
    /\ i <= Len(s)
    /\ IsLabelChar(s[i])
    /\ i > 1 => s[i - 1] # "("
    /\ IF IsWordChar(s[i]) THEN i = 1 \/ ~IsWordChar(s[i - 1])
       ELSE i > 1 /\ IsWordChar(s[i - 1])

\* the index after the match of the domain-name pattern at index i, or 0:
\* the repetition is greedy, so the match with the most groups is taken
DomainMatchEnd(s, i) ==
    IF ~DomainStartOk(s, i) THEN 0
    ELSE LET ends == {DomainTldEnd(s, d) : d \in DomainGroupEnds(s, i)} \ {0}
         IN  IF ends = {} THEN 0
             ELSE CHOOSE e \in ends : \A f \in ends : f <= e

\* /^(?:[A-Za-z0-9-]+\.)+[A-Za-z]{2,}$/.test(s), for s without line breaks
IsDomainLine(s) ==
    \E d \in DomainGroupEnds(s, 1) :
        Len(s) - d + 1 >= 2 /\ \A n \in d..Len(s) : IsLetter(s[n])

\* out.replace(/(?<!\()\b(?:[A-Za-z0-9-]+\.)+[A-Za-z]{2,}\b(?!\))/g, "")
RECURSIVE RemoveDomainTokensFrom(_, _)
RemoveDomainTokensFrom(s, i) ==
    IF i > Len(s) THEN <<>>
    ELSE LET e == DomainMatchEnd(s, i)
         IN  IF e # 0 THEN RemoveDomainTokensFrom(s, e)
             ELSE <<s[i]>> \o RemoveDomainTokensFrom(s, i + 1)

RemoveDomainTokens(s) == RemoveDomainTokensFrom(s, 1)

Sources == <<"s", "o", "u", "r", "c", "e", "s">>

ThoughtProcess ==
    <<"t", "h", "o", "u", "g", "h", "t", " ", "p", "r", "o", "c", "e", "s", "s">>

\* the loop over the lines: the lines kept, each trimmed
RECURSIVE CleanLines(_)
CleanLines(lines) ==
    IF lines = <<>> THEN <<>>
    ELSE LET s == Trim(Head(lines))
             rest == CleanLines(Tail(lines))
         IN  IF s = <<>> THEN <<s>> \o rest
             ELSE IF ToLowerCase(s) \in {Sources, ThoughtProcess} THEN rest
             ELSE IF IsFootnoteNumber(s) THEN rest
             ELSE IF IsDomainLine(s) THEN rest
             ELSE <<s>> \o rest

cleanGlmMarkdown(text) ==
    LET out1 == CollapseBlankLines(StripBlanksBeforeLf(NormalizeLineBreaks(text)))
        out2 == Join(CleanLines(SplitLf(out1)), <<LF>>)
        out3 == CollapseBlanks(RemoveDomainTokens(out2))
    IN  Trim(CollapseBlankLines(out3))

\* the command-line converter's cleanup: the same passes, and a final line
\* break after a non-empty result
cleanMarkdown(text) ==
    LET out == cleanGlmMarkdown(text)
    IN  IF out # <<>> THEN out \o <<LF>> ELSE <<>>

(***************************************************************************)
(* Markdown cleanup applied twice: inputs and specification                *)
(***************************************************************************)
\* A text is at most MaxMdChunks chunks, each one of MdChunks.
MaxMdChunks == 4

MdChunks ==
    { <<"a", "b">>, <<"1">>, <<".">>, <<SP>>, <<TAB>>, <<LF>>, <<CR>>,
      <<"(">>, <<")">>, <<"S", "o", "u", "r", "c", "e", "s">>,
      <<"t", "h", "o", "u", "g", "h", "t">>, <<"p", "r", "o", "c", "e", "s", "s">> }

RECURSIVE Concat(_)
Concat(chunks) == IF chunks = <<>> THEN <<>> ELSE Head(chunks) \o Concat(Tail(chunks))

MdInputs == {Concat(cs) : cs \in UNION {[1..n -> MdChunks] : n \in 0..MaxMdChunks}}

SegIdle ==
    /\ html = <<>>
    /\ blockItems = <<>>
    /\ grokBlocks = <<>>
    /\ segPc = "idle"

TurnIdle ==
    /\ conv = "none"
    /\ items = <<>>
    /\ idx = 0
    /\ currentQuestion = <<>>
    /\ currentAnswers = <<>>
    /\ pairs = <<>>
    /\ output = <<>>
    /\ pc = "idle"

QaIdle ==
    /\ qaPairs = <<>>
    /\ qaText = <<>>
    /\ parsedPairs = <<>>
    /\ qaPc = "idle"

ApplyClean(fn, text) ==
    IF fn = "cleanGlmMarkdown" THEN cleanGlmMarkdown(text) ELSE cleanMarkdown(text)

MdIdle ==
    /\ mdFn = "none"
    /\ mdText = <<>>
    /\ mdOnce = <<>>
    /\ mdTwice = <<>>
    /\ mdPc = "idle"

MimeIdle ==
    /\ mhtml = <<>>
    /\ mimeResult = [error |-> "none", parts |-> <<>>]
    /\ mainKind = "none"
    /\ mainIndex = 0
    /\ mimePc = "idle"

CodecIdle ==
    /\ codecBytes = <<>>
    /\ codecType = <<>>
    /\ codecText = <<>>
    /\ codecOut = <<>>
    /\ codecPc = "idle"

CidIdle ==
    /\ cidParts = <<>>
    /\ docHasConv = FALSE
    /\ docElems = <<>>
    /\ outElems = <<>>
    /\ outStyles = <<>>
    /\ cidPc = "idle"

TableIdle ==
    /\ tableFn = "none"
    /\ tableRows = <<>>
    /\ tableOut = <<>>
    /\ tablePc = "idle"

DecIdle ==
    /\ decBytes = <<>>
    /\ decHint = <<>>
    /\ decOut = <<>>
    /\ decPc = "idle"

RunIdle ==
    /\ page = "none"
    /\ inputFile = <<>>
    /\ outputDir = FALSE
    /\ outputName = <<>>
    /\ outputBlob = "null"
    /\ status = [text |-> "", cls |-> "muted"]
    /\ runs = <<>>
    /\ saves = <<>>
    /\ written = <<>>
    /\ selectedConverterId = "none"
    /\ outputOf = <<>>

ScanIdle ==
    /\ scanHtml = <<>>
    /\ scanPos = 0
    /\ scanBlocks = <<>>
    /\ scanStart = 0
    /\ scanRole = "model"
    /\ scanDepth = 0
    /\ scanK = 0
    /\ scanPc = "done"

AssetIdle ==
    /\ assetNodes = <<>>
    /\ assetIdx = 1
    /\ imageSeq = 1
    /\ inlineSvgSeq = 1
    /\ assetFiles = <<>>
    /\ assetPc = "idle"

ListIdle ==
    /\ listFn = "none"
    /\ listName = "ul"
    /\ listDepth = 0
    /\ listChildren = <<>>
    /\ listOut = <<>>
    /\ listPc = "idle"

ShareIdle ==
    /\ shareCalls = <<>>
    /\ shareDisk = {}
    /\ shareResults = <<>>

\* every part of the model but the part g is idle
Idle(g) ==
    /\ g = "qa" \/ QaIdle
    /\ g = "md" \/ MdIdle
    /\ g = "turn" \/ TurnIdle
    /\ g = "seg" \/ SegIdle
    /\ g = "mime" \/ MimeIdle
    /\ g = "codec" \/ CodecIdle
    /\ g = "cid" \/ CidIdle
    /\ g = "table" \/ TableIdle
    /\ g = "dec" \/ DecIdle
    /\ g = "run" \/ RunIdle
    /\ g = "scan" \/ ScanIdle
    /\ g = "asset" \/ AssetIdle
    /\ g = "list" \/ ListIdle
    /\ g = "share" \/ ShareIdle

MdInit ==
    /\ mdFn \in {"cleanGlmMarkdown", "cleanMarkdown"}
    /\ mdText \in MdInputs
    /\ mdOnce = <<>>
    /\ mdTwice = <<>>
    /\ mdPc = "text"
    /\ Idle("md")

\* the cleanup of a rendered fragment
MdClean ==
    /\ mdPc = "text"
    /\ mdOnce' = ApplyClean(mdFn, mdText)
    /\ mdPc' = "once"
    /\ UNCHANGED <<mdFn, mdText, mdTwice, exceptMd>>

\* the cleanup of an already cleaned text
MdCleanAgain ==
    /\ mdPc = "once"
    /\ mdTwice' = ApplyClean(mdFn, mdOnce)
    /\ mdPc' = "twice"
    /\ UNCHANGED <<mdFn, mdText, mdOnce, exceptMd>>

MdNext == MdClean \/ MdCleanAgain

SpecClean == MdInit /\ [][MdNext]_vars

(***************************************************************************)
(* C2                                                                      *)
(***************************************************************************)
\* C2: Markdown cleanup is idempotent: cleaning an already cleaned text
\* returns it unchanged, for cleanGlmMarkdown and for cleanMarkdown.
C2_CleanIdempotent == mdPc = "twice" => mdTwice = mdOnce

(***************************************************************************)
(* Transcript round trip: the inputs                                       *)
(***************************************************************************)
\* A transcript input is written flat, as at most MaxQaSymbols symbols: a
\* symbol is a piece of text or "sep", which ends a string.  The strings are
\* taken two by two as (question, answer).
MaxQaSymbols == 5

QaSymbols == {"x", "lf", "cr", "sp", "open", "close", "qm", "am", "sep"}

QaChunk(sym) ==
    CASE sym = "x" -> <<"x">>
      [] sym = "lf" -> <<LF>>
      [] sym = "cr" -> <<CR>>
      [] sym = "sp" -> <<SP>>
      [] sym = "open" -> TurnOpen
      [] sym = "close" -> TurnClose
      [] sym = "qm" -> QuestionMarker
      [] sym = "am" -> AnswerMarker

\* the strings of a flat input, from symbol i on, cur being the string so far
RECURSIVE QaFieldsFrom(_, _, _)
QaFieldsFrom(flat, i, cur) ==
    IF i > Len(flat) THEN <<cur>>
    ELSE IF flat[i] = "sep" THEN <<cur>> \o QaFieldsFrom(flat, i + 1, <<>>)
    ELSE QaFieldsFrom(flat, i + 1, cur \o QaChunk(flat[i]))

QaFields(flat) == QaFieldsFrom(flat, 1, <<>>)

QaPairsOfFields(fields) ==
    [n \in 1..(Len(fields) \div 2) |-> <<fields[2 * n - 1], fields[2 * n]>>]

QaFlatInputs == UNION {[1..n -> QaSymbols] : n \in 1..MaxQaSymbols}

QaInputs ==
    {QaPairsOfFields(QaFields(flat)) :
        flat \in {f \in QaFlatInputs : Len(QaFields(f)) % 2 = 0}}

(***************************************************************************)
(* Transcript round trip: the specification                                *)
(***************************************************************************)
QaInit ==
    /\ qaPairs \in QaInputs
    /\ qaText = <<>>
    /\ parsedPairs = <<>>
    /\ qaPc = "pairs"
    /\ Idle("qa")

\* convertMhtmlToQaTxt writes the transcript of the pairs
QaFormat ==
    /\ qaPc = "pairs"
    /\ qaText' = FormatQaTxt(qaPairs)
    /\ qaPc' = "text"
    /\ UNCHANGED <<qaPairs, parsedPairs, exceptQa>>

\* the text-to-html converter (browser or command line) parses it back
QaParse ==
    /\ qaPc = "text"
    /\ \E parser \in {"parseQaText", "parseQa"} :
          parsedPairs' = IF parser = "parseQaText" THEN parseQaText(qaText)
                         ELSE parseQa(qaText)
    /\ qaPc' = "parsed"
    /\ UNCHANGED <<qaPairs, qaText, exceptQa>>

QaNext == QaFormat \/ QaParse

SpecQa == QaInit /\ [][QaNext]_vars

(***************************************************************************)
(* C1                                                                      *)
(***************************************************************************)
QaStrings(ps) == {ps[n][k] : n \in 1..Len(ps), k \in 1..2}

LinesOf(s) == LET ls == SplitLf(s) IN {ls[n] : n \in 1..Len(ls)}

NoTurnDelimiterLine(s) == \A line \in LinesOf(s) : ~IsTurnDelimiter(line)

NoSectionMarkerLine(s) ==
    \A line \in LinesOf(s) :
        Trim(line) # QuestionMarker /\ Trim(line) # AnswerMarker

\* s does not end with a line break, and no carriage return stands before a
\* line feed or at the end of s
NoLostLineEnd(s) ==
    /\ s # <<>> => s[Len(s)] \notin {LF, CR}
    /\ \A n \in 1..(Len(s) - 1) : ~(s[n] = CR /\ s[n + 1] = LF)

BlankLine == <<LF, LF>>

\* U+D0A4 U+BCF4 U+B4DC " " U+B2E8 U+CD95 U+D0A4 ...: the two keyboard-shortcut
\* hints of the Grok page, which the Grok converters drop
ShortcutHintLong ==
    << "ki", "bo", "deu", " ", "dan", "chuk", "ki", "reul", " ", "bo", "ryeo",
       "myeon", " ", "mul", "eum", "pyo", "reul", " ", "nu", "reu", "se", "yo", "." >>

ShortcutHintShort == <<"ki", "bo", "deu", " ", "dan", "chuk", "ki", " ", "bo", "gi">>

LoopInit == [q |-> <<>>, answers |-> <<>>, turns |-> <<>>]

\* a loop that keeps the accumulated answers when a new question arrives
QaLoopStepKeepsAnswers(st, item) ==
    IF item.text = <<>> THEN st
    ELSE IF item.role = "user"
         THEN [q |-> <<item.text>>,
               answers |-> st.answers,
               turns |-> IF st.q # <<>>
                         THEN Append(st.turns,
                                     <<st.q[1], Trim(Join(st.answers, BlankLine))>>)
                         ELSE st.turns]
    ELSE [st EXCEPT !.q = IF st.q = <<>> THEN <<NoQuestion>> ELSE st.q,
                    !.answers = Append(st.answers, item.text)]

\* a loop that leaves the question null when an answer comes first
QaLoopStepNoPlaceholder(st, item) ==
    IF item.text = <<>> THEN st
    ELSE IF item.role = "user"
         THEN [q |-> <<item.text>>,
               answers |-> <<>>,
               turns |-> IF st.q # <<>>
                         THEN Append(st.turns,
                                     <<st.q[1], Trim(Join(st.answers, BlankLine))>>)
                         ELSE st.turns]
    ELSE [st EXCEPT !.answers = Append(st.answers, item.text)]

\* a loop without the test for an empty text
QaLoopStepNoSkip(st, item) ==
    IF item.role = "user"
    THEN [q |-> <<item.text>>,
          answers |-> <<>>,
          turns |-> IF st.q # <<>>
                    THEN Append(st.turns,
                                <<st.q[1], Trim(Join(st.answers, BlankLine))>>)
                    ELSE st.turns]
    ELSE [st EXCEPT !.q = IF st.q = <<>> THEN <<NoQuestion>> ELSE st.q,
                    !.answers = Append(st.answers, item.text)]

\* extractQaPairsFromMhtml (converter-suite.js) and main (mhtml2txt.js): one
\* iteration of the loop over the fragments
QaLoopStep(st, item) ==
    IF item.text = <<>> THEN st
    ELSE IF item.role = "user"
         THEN [q |-> <<item.text>>,
               answers |-> <<>>,
               turns |-> IF st.q # <<>>
                         THEN Append(st.turns,
                                     <<st.q[1], Trim(Join(st.answers, BlankLine))>>)
                         ELSE st.turns]
    ELSE [st EXCEPT !.q = IF st.q = <<>> THEN <<NoQuestion>> ELSE st.q,
                    !.answers = Append(st.answers, item.text)]

\* a final push that is made only when an answer was accumulated
QaLoopEndNeedsAnswer(st) ==
    IF st.q # <<>> /\ st.answers # <<>>
    THEN Append(st.turns, <<st.q[1], Trim(Join(st.answers, BlankLine))>>)
    ELSE st.turns

\* the push after the loop
QaLoopEnd(st) ==
    IF st.q # <<>>
    THEN Append(st.turns, <<st.q[1], Trim(Join(st.answers, BlankLine))>>)
    ELSE st.turns

RECURSIVE QaLoop(_, _)
QaLoop(st, its) ==
    IF its = <<>> THEN st ELSE QaLoop(QaLoopStep(st, Head(its)), Tail(its))

\* the pairs extractQaPairsFromMhtml returns for a fragment sequence
extractQaPairs(its) == QaLoopEnd(QaLoop(LoopInit, its))

\* answers.filter((a) => a.trim())
RECURSIVE FilterNonBlank(_)
FilterNonBlank(answers) ==
    IF answers = <<>> THEN <<>>
    ELSE (IF Trim(Head(answers)) # <<>> THEN <<Head(answers)>> ELSE <<>>)
         \o FilterNonBlank(Tail(answers))

\* a loop that keeps the last answer of a turn only
GrokLoopStepLastAnswer(st, item) ==
    IF item.text = <<>> THEN st
    ELSE IF item.text \in {ShortcutHintLong, ShortcutHintShort} THEN st
    ELSE IF item.role = "user"
         THEN [q |-> <<item.text>>,
               answers |-> <<>>,
               turns |-> IF st.q # <<>>
                         THEN Append(st.turns,
                                     <<st.q[1],
                                       Trim(Join(FilterNonBlank(st.answers), BlankLine))>>)
                         ELSE st.turns]
    ELSE [st EXCEPT !.q = IF st.q = <<>> THEN <<NoQuestion>> ELSE st.q,
                    !.answers = <<item.text>>]

\* buildTurns (mhtml2md-grok.js) and the loop of convertMhtmlToMdGrok
GrokLoopStep(st, item) ==
    IF item.text = <<>> THEN st
    ELSE IF item.text \in {ShortcutHintLong, ShortcutHintShort} THEN st
    ELSE IF item.role = "user"
         THEN [q |-> <<item.text>>,
               answers |-> <<>>,
               turns |-> IF st.q # <<>>
                         THEN Append(st.turns,
                                     <<st.q[1],
                                       Trim(Join(FilterNonBlank(st.answers), BlankLine))>>)
                         ELSE st.turns]
    ELSE [st EXCEPT !.q = IF st.q = <<>> THEN <<NoQuestion>> ELSE st.q,
                    !.answers = Append(st.answers, item.text)]

GrokLoopEnd(st) ==
    IF st.q # <<>>
    THEN Append(st.turns,
                <<st.q[1], Trim(Join(FilterNonBlank(st.answers), BlankLine))>>)
    ELSE st.turns

\* buildTurns (the GLM command-line converter) and the loop of
\* convertMhtmlToMdGlm; a message without a content element has no text
GlmLoopStep(st, item) ==
    IF item.text = <<>> THEN st
    ELSE IF item.role = "user"
         THEN [st EXCEPT !.q = <<item.text>>,
                         !.turns = IF st.q # <<>>
                                   THEN Append(st.turns, <<st.q[1], NoAnswer>>)
                                   ELSE st.turns]
    ELSE [st EXCEPT !.q = <<>>,
                    !.turns = Append(st.turns,
                                     << IF st.q = <<>> THEN NoQuestion ELSE st.q[1],
                                        item.text >>)]

GlmLoopEnd(st) ==
    IF st.q # <<>> THEN Append(st.turns, <<st.q[1], NoAnswer>>) ELSE st.turns

(***************************************************************************)
(* The Markdown formatters                                                 *)
(***************************************************************************)
H1 == <<"#", " ">>
TurnHeading == <<"#", "#", " ", "T", "u", "r", "n", " ">>         \* "## Turn "
QuestionHeading == <<"#", "#", "#", " ", "jil", "mun">>            \* "### " U+C9C8 U+BB38
AnswerHeading == <<"#", "#", "#", " ", "dap", "byeon">>            \* "### " U+B2F5 U+BCC0
\* U+C9C8 U+C758 U+C751 U+B2F5 " " U+CD94 U+CD9C
DefaultTitle == <<"jil", "ui", "eung", "dap", " ", "chu", "chul">>
\* the Grok title, for an input named "doc": `${inputName} ` and
\* U+C9C8 U+BB38 U+00B7 U+B2F5 U+BCC0 " " U+C815 U+B9AC
GrokTitle ==
    <<"d", "o", "c", " ", "jil", "mun", "middot", "dap", "byeon", " ", "jeong", "ri">>

\* the ten lines pushed for the i-th turn, given the texts shown for it
MdTurnLines(i, question, answer) ==
    << TurnHeading \o NumberToString(i), <<>>, QuestionHeading, <<>>, question, <<>>,
       AnswerHeading, <<>>, answer, <<>> >>

\* x || fallback
OrElse(x, fallback) == IF x = <<>> THEN fallback ELSE x

RECURSIVE TurnsMarkdownLinesFrom(_, _)
TurnsMarkdownLinesFrom(ps, i) ==
    IF i > Len(ps) THEN <<>>
    ELSE MdTurnLines(i, OrElse(ps[i][1], NoQuestion), OrElse(ps[i][2], NoAnswer))
         \o TurnsMarkdownLinesFrom(ps, i + 1)

\* makeTurnsMarkdown (converter-suite.js)
makeTurnsMarkdown(ps, title) ==
    LET lines == << H1 \o OrElse(title, DefaultTitle), <<>> >>
                 \o TurnsMarkdownLinesFrom(ps, 1)
    IN  Trim(CollapseBlankLines(Join(lines, <<LF>>))) \o <<LF>>

RECURSIVE MdLinesFrom(_, _)
MdLinesFrom(ts, i) ==
    IF i > Len(ts) THEN <<>>
    ELSE MdTurnLines(i, ts[i][1], OrElse(ts[i][2], NoAnswer)) \o MdLinesFrom(ts, i + 1)

\* makeMd (mhtml2md-grok.js)
makeMd(ts, title) ==
    LET lines == << H1 \o title, <<>> >> \o MdLinesFrom(ts, 1)
    IN  Trim(CollapseBlankLines(Join(lines, <<LF>>))) \o <<LF>>

RECURSIVE MarkdownLinesFrom(_, _)
MarkdownLinesFrom(ts, i) ==
    IF i > Len(ts) THEN <<>>
    ELSE MdTurnLines(i, ts[i][1], ts[i][2]) \o MarkdownLinesFrom(ts, i + 1)

\* makeMarkdown (the GLM command-line converter)
makeMarkdown(ts) ==
    LET lines == << H1 \o DefaultTitle, <<>> >> \o MarkdownLinesFrom(ts, 1)
    IN  Trim(Join(lines, <<LF>>)) \o <<LF>>

(***************************************************************************)
(* Turn assembly and formatting: inputs and specification                  *)
(***************************************************************************)
\* A conversion reads at most MaxItems fragments.
MaxItems == 3

Hi == <<"H", "i">>
Ok == <<"O", "k">>

\* the rendered texts: empty, two plain texts, a shortcut hint
Texts == {<<>>, Hi, Ok, ShortcutHintShort}

Fragments == [role : {"user", "model"}, text : Texts]

ItemInputs == UNION {[1..n -> Fragments] : n \in 0..MaxItems}

\* what the marker-tag strategy may find in a document the balanced-tag scan
\* found no turn in
FallbackInputs ==
    { <<>>,
      <<[role |-> "user", text |-> Hi]>>,
      <<[role |-> "model", text |-> Ok]>>,
      <<[role |-> "user", text |-> Hi], [role |-> "model", text |-> Ok]>> }

LoopState == [q |-> currentQuestion, answers |-> currentAnswers, turns |-> pairs]

LoopStep(c, st, item) ==
    CASE c = "qa" -> QaLoopStep(st, item)
      [] c = "grok" -> GrokLoopStep(st, item)
      [] c = "glm" -> GlmLoopStep(st, item)

TurnInit ==
    /\ conv \in {"qa", "grok", "glm"}
    /\ items \in ItemInputs
    /\ idx = 1
    /\ currentQuestion = <<>>
    /\ currentAnswers = <<>>
    /\ pairs = <<>>
    /\ output = <<>>
    /\ pc = "loop"
    /\ Idle("turn")

SetLoopState(st) ==
    /\ currentQuestion' = st.q
    /\ currentAnswers' = st.answers
    /\ pairs' = st.turns

\* one iteration of extractQaPairsFromMhtml's loop
QaIterate ==
    /\ conv = "qa" /\ pc = "loop" /\ idx <= Len(items)
    /\ SetLoopState(QaLoopStep(LoopState, items[idx]))
    /\ idx' = idx + 1
    /\ UNCHANGED <<conv, items, output, pc, exceptTurn>>

\* the end of extractQaPairsFromMhtml
QaFinish ==
    /\ conv = "qa" /\ pc = "loop" /\ idx > Len(items)
    /\ pairs' = QaLoopEnd(LoopState)
    /\ pc' = "done"
    /\ UNCHANGED <<conv, items, idx, currentQuestion, currentAnswers, output, exceptTurn>>

\* one iteration of the Grok loop
GrokIterate ==
    /\ conv = "grok" /\ pc = "loop" /\ idx <= Len(items)
    /\ SetLoopState(GrokLoopStep(LoopState, items[idx]))
    /\ idx' = idx + 1
    /\ UNCHANGED <<conv, items, output, pc, exceptTurn>>

GrokFinish ==
    /\ conv = "grok" /\ pc = "loop" /\ idx > Len(items)
    /\ pairs' = GrokLoopEnd(LoopState)
    /\ pc' = "done"
    /\ UNCHANGED <<conv, items, idx, currentQuestion, currentAnswers, output, exceptTurn>>

\* one iteration of the GLM loop
GlmIterate ==
    /\ conv = "glm" /\ pc = "loop" /\ idx <= Len(items)
    /\ SetLoopState(GlmLoopStep(LoopState, items[idx]))
    /\ idx' = idx + 1
    /\ UNCHANGED <<conv, items, output, pc, exceptTurn>>

GlmFinish ==
    /\ conv = "glm" /\ pc = "loop" /\ idx > Len(items)
    /\ pairs' = GlmLoopEnd(LoopState)
    /\ pc' = "done"
    /\ UNCHANGED <<conv, items, idx, currentQuestion, currentAnswers, output, exceptTurn>>

\* convertMhtmlToQaTxt, and the end of main (mhtml2txt.js)
ConvertToQaTxt ==
    /\ conv = "qa" /\ pc = "done"
    /\ output' = FormatQaTxt(pairs)
    /\ pc' = "formatted"
    /\ UNCHANGED <<conv, items, idx, currentQuestion, currentAnswers, pairs, exceptTurn>>

\* the end of convertMhtmlToMdGrok: without a turn, the pairs of the
\* marker-tag strategy are taken; then makeTurnsMarkdown
ConvertToMdGrok ==
    /\ conv = "grok" /\ pc = "done"
    /\ \E fallback \in FallbackInputs :
          /\ pairs' = IF pairs = <<>> THEN extractQaPairs(fallback) ELSE pairs
          /\ output' = makeTurnsMarkdown(pairs', GrokTitle)
    /\ pc' = "formatted"
    /\ UNCHANGED <<conv, items, idx, currentQuestion, currentAnswers, exceptTurn>>

\* the end of main (mhtml2md-grok.js)
GrokMakeMd ==
    /\ conv = "grok" /\ pc = "done"
    /\ output' = makeMd(pairs, GrokTitle)
    /\ pc' = "formatted"
    /\ UNCHANGED <<conv, items, idx, currentQuestion, currentAnswers, pairs, exceptTurn>>

\* the end of convertMhtmlToMdGlm
ConvertToMdGlm ==
    /\ conv = "glm" /\ pc = "done"
    /\ output' = makeTurnsMarkdown(pairs, DefaultTitle)
    /\ pc' = "formatted"
    /\ UNCHANGED <<conv, items, idx, currentQuestion, currentAnswers, pairs, exceptTurn>>

\* the end of main (the GLM command-line converter)
GlmMakeMarkdown ==
    /\ conv = "glm" /\ pc = "done"
    /\ output' = makeMarkdown(pairs)
    /\ pc' = "formatted"
    /\ UNCHANGED <<conv, items, idx, currentQuestion, currentAnswers, pairs, exceptTurn>>

TurnNext ==
    \/ QaIterate \/ QaFinish \/ ConvertToQaTxt
    \/ GrokIterate \/ GrokFinish \/ ConvertToMdGrok \/ GrokMakeMd
    \/ GlmIterate \/ GlmFinish \/ ConvertToMdGlm \/ GlmMakeMarkdown

SpecTurns == TurnInit /\ [][TurnNext]_vars

(***************************************************************************)
(* C3 .. C8: the turn assembler                                            *)
(***************************************************************************)
\* the texts joined by a blank line, in order
RECURSIVE JoinedByBlankLine(_)
JoinedByBlankLine(texts) ==
    IF texts = <<>> THEN <<>>
    ELSE IF Len(texts) = 1 THEN texts[1]
    ELSE texts[1] \o <<LF, LF>> \o JoinedByBlankLine(Tail(texts))

IsShortcutHint(text) == text \in {ShortcutHintLong, ShortcutHintShort}

AtFragment == pc = "loop" /\ idx <= Len(items)

\* the effect C3 describes for the fragment read next
UserFragmentEffect ==
    /\ pairs' = IF currentQuestion # <<>>
                THEN Append(pairs, <<currentQuestion[1], JoinedByBlankLine(currentAnswers)>>)
                ELSE pairs
    /\ currentAnswers' = <<>>
    /\ currentQuestion' = <<items[idx].text>>

\* C3 as stated: a user fragment with non-empty text emits the pending
\* question's Turn (if one is pending), resets the accumulator and becomes the
\* pending question, in the qa-text and the Grok assembler.
C3_UserFragmentAsStated ==
    [][ (/\ AtFragment
         /\ conv \in {"qa", "grok"}
         /\ items[idx].role = "user"
         /\ items[idx].text # <<>>)
        => UserFragmentEffect ]_vars

\* C3 amended: a user fragment with non-empty text, which in the Grok
\* assembler is not one of the two keyboard-shortcut hints, emits exactly one
\* Turn (pending question, answers joined) when a question is pending and none
\* otherwise, resets the accumulator and becomes the pending question.
C3_UserFragment ==
    [][ (/\ AtFragment
         /\ conv \in {"qa", "grok"}
         /\ items[idx].role = "user"
         /\ items[idx].text # <<>>
         /\ ~(conv = "grok" /\ IsShortcutHint(items[idx].text)))
        => UserFragmentEffect ]_vars

\* a question has just arrived while a pending question held two answers
C3_Witness ==
    /\ pc = "loop" /\ idx = 4 /\ conv \in {"qa", "grok"}
    /\ items[3].role = "user"
    /\ Len(pairs) = 1 /\ pairs[1] = <<NoQuestion, Ok \o <<LF, LF>> \o Hi>>
    /\ currentQuestion = <<Ok>> /\ currentAnswers = <<>>

\* a fragment that the converter c takes into a turn
Effective(c, item) ==
    item.text # <<>> /\ ~(c = "grok" /\ IsShortcutHint(item.text))

NoQuestionBefore(j) ==
    \A k \in 1..(j - 1) : ~(items[k].role = "user" /\ Effective(conv, items[k]))

\* C4: a model fragment with non-empty text that arrives before any user
\* fragment ends up in a Turn whose question is the "no question" placeholder
\* (a shortcut hint, which the Grok assembler drops, is in no Turn).
C4_PlaceholderQuestion ==
    pc = "done" =>
        \A j \in 1..Len(items) :
            (items[j].role = "model" /\ Effective(conv, items[j]) /\ NoQuestionBefore(j))
            => \E n \in 1..Len(pairs) :
                   pairs[n][1] = NoQuestion /\ Contains(pairs[n][2], items[j].text)

\* an answer came first and a question after it
C4_Witness ==
    /\ pc = "done" /\ Len(items) >= 2
    /\ items[1].role = "model" /\ items[1].text = Ok
    /\ items[2].role = "user" /\ items[2].text = Hi
    /\ pairs[1] = <<NoQuestion, Ok>>

\* C5: at the end of input a pending question is emitted as a final Turn,
\* also when no answer was accumulated for it; without a pending question
\* nothing is emitted.
C5_EndOfInput ==
    [][ (pc = "loop" /\ idx > Len(items))
        => IF currentQuestion # <<>>
           THEN /\ Len(pairs') = Len(pairs) + 1
                /\ SubSeq(pairs', 1, Len(pairs)) = pairs
                /\ pairs'[Len(pairs')][1] = currentQuestion[1]
           ELSE pairs' = pairs ]_vars

\* the input ended on a question without an answer, and its Turn was emitted
C5_Witness ==
    /\ pc = "done" /\ conv = "qa"
    /\ currentQuestion = <<Hi>> /\ currentAnswers = <<>>
    /\ Len(pairs) = 2 /\ pairs[2] = <<Hi, <<>>>>

\* the lines of the formatted document
OutputLines == SplitLf(output)

\* the line that opens the answer section of the n-th Turn, and the line the
\* answer starts on: directly after "dap byeon :" in a transcript, after the
\* heading and a blank line in Markdown
AnswerOpenLine(n) ==
    LET lines == OutputLines
        turnLine == CHOOSE k \in 1..Len(lines) :
                        lines[k] \in { TurnOpen \o NumberToString(n) \o TurnClose,
                                       TurnHeading \o NumberToString(n) }
    IN  CHOOSE k \in (turnLine + 1)..Len(lines) :
            /\ lines[k] \in {AnswerMarker, AnswerHeading}
            /\ \A m \in (turnLine + 1)..(k - 1) : lines[m] \notin {AnswerMarker, AnswerHeading}

AnswerFirstLine(n) ==
    LET lines == OutputLines
        k == AnswerOpenLine(n)
    IN  IF lines[k] = AnswerMarker THEN lines[k + 1] ELSE lines[k + 2]

\* C6: in the formatted output (transcript and Markdown) a Turn whose answer
\* accumulator was empty shows the "no answer" placeholder in its answer
\* section.
C6_NoAnswerPlaceholder ==
    pc = "formatted" =>
        \A n \in 1..Len(pairs) :
            pairs[n][2] \in {<<>>, NoAnswer} => AnswerFirstLine(n) = NoAnswer

\* the effective model fragments that follow fragment j up to the next
\* effective user fragment
RECURSIVE AnswersFrom(_)
AnswersFrom(k) ==
    IF k > Len(items) THEN <<>>
    ELSE IF ~Effective(conv, items[k]) THEN AnswersFrom(k + 1)
    ELSE IF items[k].role = "user" THEN <<>>
    ELSE <<items[k].text>> \o AnswersFrom(k + 1)

\* C7: consecutive model fragments after one user fragment give a single Turn
\* whose answer is their texts in order, joined by a blank line, in every Q&A
\* converter (qa-text, Grok, GLM).
C7_AnswersJoined ==
    pc = "done" =>
        \A j \in 1..Len(items) :
            (/\ items[j].role = "user"
             /\ Effective(conv, items[j])
             /\ Len(AnswersFrom(j + 1)) >= 2)
            => \E n \in 1..Len(pairs) :
                   pairs[n] = <<items[j].text, JoinedByBlankLine(AnswersFrom(j + 1))>>

\* C8: a fragment whose rendered text is empty changes neither the pending
\* question nor the answer accumulator nor the emitted Turns, whatever its
\* role.
C8_EmptyFragmentSkipped ==
    [][ (AtFragment /\ items[idx].text = <<>>)
        => UNCHANGED <<currentQuestion, currentAnswers, pairs>> ]_vars

\* an empty user fragment was read while a question and an answer were held
C8_Witness ==
    /\ pc = "loop" /\ idx = 4
    /\ items[3].role = "user" /\ items[3].text = <<>>
    /\ currentQuestion = <<Hi>> /\ currentAnswers = <<Ok>>

(* ------------------------------------------------------------------ *)
(* Segment scanners.  The main HTML document is a sequence of tokens;   *)
(* every token stands for the literal text below and offsets are        *)
(* counted in characters of that text, as the code counts them.         *)
(*   "user-query"        <user-query>                                   *)
(*   "/user-query"       </user-query>                                  *)
(*   "message-content"   <message-content>                              *)
(*   "/message-content"  </message-content>                             *)
(*   "role-user"         <div data-message-author-role="user">          *)
(*   "role-assistant"    <div data-message-author-role="assistant">     *)
(*   "div-user"          <div dir="ltr" class="r-imh66m r-1kt6imw">     *)
(*   "div-model"         <div dir="ltr" class="r-imh66m">               *)
(*   "div-other"         <div dir="ltr" class="r-other">                *)
(*   "div-cut"           <div dir="ltr" class="r-imh66m   (no end)      *)
(*   "div"               <div>                                          *)
(*   "/div"              </div>                                         *)
(*   "x"                 one character of text                          *)
(* ------------------------------------------------------------------ *)
Width(tok) ==
    CASE tok = "user-query" -> 12
      [] tok = "/user-query" -> 13
      [] tok = "message-content" -> 17
      [] tok = "/message-content" -> 18
      [] tok = "role-user" -> 37
      [] tok = "role-assistant" -> 42
      [] tok = "div-user" -> 42
      [] tok = "div-model" -> 32
      [] tok = "div-other" -> 31
      [] tok = "div-cut" -> 30
      [] tok = "div" -> 5
      [] tok = "/div" -> 6
      [] OTHER -> 1

RECURSIVE Offset(_, _)
\* the character index at which token n of h starts (0-based)
Offset(h, n) == IF n <= 1 THEN 0 ELSE Offset(h, n - 1) + Width(h[n - 1])

HtmlLength(h) == Offset(h, Len(h) + 1)

NeedleTokens == {"div-user", "div-model", "div-other", "div-cut"}
QuoteGtTokens == {"role-user", "role-assistant", "div-user", "div-model", "div-other"}
DivOpenTokens == NeedleTokens \cup {"role-user", "role-assistant", "div"}
RoleTokens == {"role-user", "role-assistant"}

\* the class names written in a token's class attribute
TokenClasses(tok) ==
    CASE tok = "div-user" -> {"r-imh66m", "r-1kt6imw"}
      [] tok = "div-model" -> {"r-imh66m"}
      [] tok = "div-cut" -> {"r-imh66m"}
      [] OTHER -> {}

\* the character indexes at which the literal lit occurs in h
Occurrences(h, lit) ==
    CASE lit = "needle" -> {Offset(h, n) : n \in {m \in 1..Len(h) : h[m] \in NeedleTokens}}
      [] lit = "quoteGt" ->
            {Offset(h, n) + Width(h[n]) - 2 : n \in {m \in 1..Len(h) : h[m] \in QuoteGtTokens}}
      [] lit = "divOpen" -> {Offset(h, n) : n \in {m \in 1..Len(h) : h[m] \in DivOpenTokens}}
      [] lit = "divClose" -> {Offset(h, n) : n \in {m \in 1..Len(h) : h[m] = "/div"}}

Least(S) == CHOOSE o \in S : \A q \in S : o <= q

\* String.prototype.indexOf(lit, from)
IndexOf(h, lit, from) ==
    LET occ == {o \in Occurrences(h, lit) : o >= from}
    IN  IF occ = {} THEN -1 ELSE Least(occ)

\* fullHtml.slice(i + needle.length, j).includes(name), for a needle at i
\* and the first quote-bracket at j
ClassAttrIncludes(h, i, j, name) ==
    \E n \in 1..Len(h) :
        /\ Offset(h, n) >= i
        /\ Offset(h, n) < j
        /\ name \in TokenClasses(h[n])

RECURSIVE DepthScanFirstClose(_, _, _)
DepthScanFirstClose(h, depth, k) ==
    IF depth <= 0 THEN [depth |-> depth, k |-> k]
    ELSE LET nClose == IndexOf(h, "divClose", k)
         IN  IF nClose = -1 THEN [depth |-> depth, k |-> HtmlLength(h)]
             ELSE DepthScanFirstClose(h, depth - 1, nClose + 6)

RECURSIVE DepthScan(_, _, _)
\* the inner while (depth > 0) loop of the balanced-tag scan
DepthScan(h, depth, k) ==
    IF depth <= 0 THEN [depth |-> depth, k |-> k]
    ELSE LET nOpen == IndexOf(h, "divOpen", k)
             nClose == IndexOf(h, "divClose", k)
         IN  IF nClose = -1 THEN [depth |-> depth, k |-> HtmlLength(h)]
             ELSE IF nOpen # -1 /\ nOpen < nClose
                  THEN DepthScan(h, depth + 1, nOpen + 4)
                  ELSE DepthScan(h, depth - 1, nClose + 6)

RECURSIVE GrokScanNested(_, _, _)
\* a scan that resumes right after the opening tag of the block it took
GrokScanNested(h, pos, blocks) ==
    LET i == IndexOf(h, "needle", pos)
        j == IndexOf(h, "quoteGt", i)
    IN  IF i = -1 THEN blocks
        ELSE IF j = -1 THEN blocks
        ELSE IF ~ClassAttrIncludes(h, i, j, "r-imh66m") THEN GrokScanNested(h, i + 1, blocks)
        ELSE LET start == j + 2
                 scan == DepthScan(h, 1, start)
                 role == IF ClassAttrIncludes(h, i, j, "r-1kt6imw") THEN "user" ELSE "model"
                 fragment == IF scan.depth = 0
                             THEN [from |-> start, to |-> scan.k - 6]
                             ELSE [from |-> start, to |-> scan.k]
             IN  GrokScanNested(h, start,
                                Append(blocks, [role |-> role, from |-> fragment.from,
                                                to |-> fragment.to]))

RECURSIVE GrokScan(_, _, _)
\* the outer while (true) loop; a block is [role, fragment] with the
\* fragment kept as the bounds of its slice of h
GrokScan(h, pos, blocks) ==
    LET i == IndexOf(h, "needle", pos)
        j == IndexOf(h, "quoteGt", i)
    IN  IF i = -1 THEN blocks
        ELSE IF j = -1 THEN blocks
        ELSE IF ~ClassAttrIncludes(h, i, j, "r-imh66m") THEN GrokScan(h, i + 1, blocks)
        ELSE LET start == j + 2
                 scan == DepthScan(h, 1, start)
                 role == IF ClassAttrIncludes(h, i, j, "r-1kt6imw") THEN "user" ELSE "model"
                 fragment == IF scan.depth = 0
                             THEN [from |-> start, to |-> scan.k - 6]
                             ELSE [from |-> start, to |-> scan.k]
             IN  GrokScan(h, scan.k,
                          Append(blocks, [role |-> role, from |-> fragment.from,
                                          to |-> fragment.to]))

extractGrokBlocks(h) == GrokScan(h, 0, <<>>)

extractMessageBlocks(h) == extractGrokBlocks(h)

RECURSIVE TagMatches(_, _, _, _, _)
\* the matches of /<open[^>]*>([\s\S]*?)<\/close>/gi from token n on
TagMatches(h, open, close, role, n) ==
    LET opens == {a \in n..Len(h) : h[a] = open /\ \E c \in (a + 1)..Len(h) : h[c] = close}
    IN  IF opens = {} THEN <<>>
        ELSE LET a == Least(opens)
                 c == Least({e \in (a + 1)..Len(h) : h[e] = close})
             IN  <<[role |-> role, pos |-> Offset(h, a),
                    from |-> Offset(h, a) + Width(open), to |-> Offset(h, c)]>>
                 \o TagMatches(h, open, close, role, c + 1)

MarkerItems(h) ==
    TagMatches(h, "user-query", "/user-query", "user", 1)
    \o TagMatches(h, "message-content", "/message-content", "model", 1)

\* the token indexes of the role-attribute matches, in match order
RoleMatches(h) == SortedIndexes(h, {n \in 1..Len(h) : h[n] \in RoleTokens})

\* a fallback whose fragments all run to the end of the document
FallbackItemsToEnd(h) ==
    LET roleMatches == RoleMatches(h)
    IN  [i \in 1..Len(roleMatches) |->
            [role |-> IF h[roleMatches[i]] = "role-user" THEN "user" ELSE "model",
             pos |-> Offset(h, roleMatches[i]), from |-> Offset(h, roleMatches[i]),
             to |-> HtmlLength(h)]]

\* the role-attribute fallback loop
FallbackItems(h) ==
    LET roleMatches == RoleMatches(h)
    IN  [i \in 1..Len(roleMatches) |->
            LET start == Offset(h, roleMatches[i])
                next == IF i + 1 <= Len(roleMatches) THEN Offset(h, roleMatches[i + 1]) ELSE 0
                end == IF next # 0 THEN next ELSE HtmlLength(h)
            IN  [role |-> IF h[roleMatches[i]] = "role-user" THEN "user" ELSE "model",
                 pos |-> start, from |-> start, to |-> end]]

RECURSIVE SortByPos(_)
\* items.sort((a, b) => a.pos - b.pos), a stable sort
SortByPos(its) ==
    IF its = <<>> THEN <<>>
    ELSE LET sorted == SortByPos(SubSeq(its, 1, Len(its) - 1))
             it == its[Len(its)]
             k == Cardinality({a \in 1..Len(sorted) : sorted[a].pos <= it.pos})
         IN  SubSeq(sorted, 1, k) \o <<it>> \o SubSeq(sorted, k + 1, Len(sorted))

extractBlocksUnsorted(h) ==
    IF Len(MarkerItems(h)) > 0 THEN MarkerItems(h) ELSE SortByPos(FallbackItems(h))

extractBlocks(h) ==
    IF Len(MarkerItems(h)) > 0 THEN SortByPos(MarkerItems(h)) ELSE SortByPos(FallbackItems(h))

MaxMarkerTokens == 4
MaxDivTokens == 5

MarkerTokens ==
    {"user-query", "/user-query", "message-content", "/message-content",
     "role-user", "role-assistant", "x"}

DivTokens == {"div-user", "div-model", "div-other", "div-cut", "div", "/div", "x"}

MarkerDocs == UNION {[1..n -> MarkerTokens] : n \in 0..MaxMarkerTokens}

DivDocs == UNION {[1..n -> DivTokens] : n \in 0..MaxDivTokens}

SegInit ==
    /\ html \in MarkerDocs \cup DivDocs
    /\ blockItems = <<>>
    /\ grokBlocks = <<>>
    /\ segPc = "html"
    /\ Idle("seg")

ExtractBlocks ==
    /\ segPc = "html"
    /\ blockItems' = extractBlocks(html)
    /\ segPc' = "items"
    /\ UNCHANGED <<html, grokBlocks, exceptSeg>>

ExtractGrokBlocks ==
    /\ segPc = "html"
    /\ grokBlocks' = extractGrokBlocks(html)
    /\ segPc' = "blocks"
    /\ UNCHANGED <<html, blockItems, exceptSeg>>

SegNext == ExtractBlocks \/ ExtractGrokBlocks

SpecSeg == SegInit /\ [][SegNext]_vars

(* ------------------------------------------------------------------ *)
(* C9, C10: the order and the extent of the scanned fragments          *)
(* ------------------------------------------------------------------ *)

\* C9: every segmentation strategy (the custom-element scan with its sort,
\* the role-attribute fallback and the balanced-tag scan) returns its
\* fragments in strictly increasing order of their position in the HTML,
\* whatever their roles.
C9_SourceOrder ==
    /\ segPc = "items" =>
           \A a, b \in 1..Len(blockItems) : a < b => blockItems[a].pos < blockItems[b].pos
    /\ segPc = "blocks" =>
           \A a, b \in 1..Len(grokBlocks) : a < b => grokBlocks[a].from < grokBlocks[b].from

\* a model element lies before a user element in the source: the scan
\* collected the user element first and the sort put the model element first
C9_Witness ==
    /\ segPc = "items"
    /\ Len(blockItems) = 2
    /\ html[1] = "message-content"
    /\ blockItems[1].role = "model"
    /\ blockItems[2].role = "user"
    /\ blockItems[1].pos = 0

\* the closing tag that balances a container whose content starts at start:
\* the first </div> at which as many <div were opened as were closed since
DivsBetween(h, lit, lo, hi) == Cardinality({o \in Occurrences(h, lit) : o >= lo /\ o < hi})

MatchingClose(h, start) ==
    LET closes == {c \in Occurrences(h, "divClose") :
                       /\ c >= start
                       /\ DivsBetween(h, "divOpen", start, c) = DivsBetween(h, "divClose", start, c)}
    IN  IF closes = {} THEN -1 ELSE Least(closes)

\* C10: when the closing tag of a message container exists, the fragment
\* scanned for that container ends right before that closing tag, nested
\* div elements included, and not at the first </div> met.
C10_EndsBeforeMatchingClose ==
    segPc = "blocks" =>
        \A b \in 1..Len(grokBlocks) :
            MatchingClose(html, grokBlocks[b].from) # -1
                => grokBlocks[b].to = MatchingClose(html, grokBlocks[b].from)

\* a container with a nested div, both closed: the fragment runs past the
\* nested closing tag up to the container's own
C10_Witness ==
    /\ segPc = "blocks"
    /\ html = <<"div-user", "div", "x", "/div", "/div">>
    /\ Len(grokBlocks) = 1
    /\ grokBlocks[1].from = 42
    /\ grokBlocks[1].to = 54

(***************************************************************************)
(* Bytes and characters.  A byte is a number in 0..255; a decoded Latin-1  *)
(* character is a one-character string, "u255" standing for U+00FF, and   *)
(* "u0060" for the grave accent.                                           *)
(***************************************************************************)
\* the printable ASCII characters, U+0020 .. U+007E, in code order
Ascii ==
    <<" ", "!", "\"", "#", "$", "%", "&", "'", "(", ")", "*", "+", ",", "-",
       ".", "/", "0", "1", "2", "3", "4", "5", "6", "7", "8", "9", ":", ";",
       "<", "=", ">", "?", "@", "A", "B", "C", "D", "E", "F", "G", "H", "I",
       "J", "K", "L", "M", "N", "O", "P", "Q", "R", "S", "T", "U", "V", "W",
       "X", "Y", "Z", "[", "\\", "]", "^", "_", "u0060", "a", "b", "c", "d", "e",
       "f", "g", "h", "i", "j", "k", "l", "m", "n", "o", "p", "q", "r", "s",
       "t", "u", "v", "w", "x", "y", "z", "{", "|", "}", "~">>

\* String.fromCharCode(b), and the Latin-1 decoding of the byte b; a
\* character outside printable ASCII is written "u" and its code
FromCharCode(b) ==
    CASE b = 10 -> LF
      [] b = 13 -> CR
      [] b = 9 -> TAB
      [] b \in 32..126 -> Ascii[b - 31]
      [] OTHER -> "u" \o ToString(b)

\* ch.charCodeAt(0) & 0xff
CharCode(c) ==
    CASE c = LF -> 10
      [] c = CR -> 13
      [] c = TAB -> 9
      [] \E n \in 1..Len(Ascii) : Ascii[n] = c ->
            31 + (CHOOSE n \in 1..Len(Ascii) : Ascii[n] = c)
      [] OTHER -> CHOOSE b \in 0..255 : FromCharCode(b) = c

latin1ToBytes(text) == [n \in 1..Len(text) |-> CharCode(text[n])]

\* new TextDecoder("iso-8859-1").decode(bytes)
Latin1Decode(bytes) == [n \in 1..Len(bytes) |-> FromCharCode(bytes[n])]

HexDigits == <<"0", "1", "2", "3", "4", "5", "6", "7", "8", "9", "A", "B", "C", "D", "E", "F">>

HexDigitsLower == <<"0", "1", "2", "3", "4", "5", "6", "7", "8", "9", "a", "b", "c", "d", "e", "f">>

IsHexDigit(c) == \E n \in 1..16 : c = HexDigits[n] \/ c = HexDigitsLower[n]

HexValue(c) == (CHOOSE n \in 1..16 : c = HexDigits[n] \/ c = HexDigitsLower[n]) - 1

\* parseInt(two hex digits, 16)
ParseHexPair(a, b) == 16 * HexValue(a) + HexValue(b)

\* text.replace(/=\r?\n/g, "")
RemoveSoftBreaks(text) ==
    LET breakAt == {n \in 1..Len(text) :
                        /\ text[n] = "="
                        /\ \/ (n + 1 <= Len(text) /\ text[n + 1] = LF)
                           \/ (n + 2 <= Len(text) /\ text[n + 1] = CR /\ text[n + 2] = LF)}
        gone == {n \in 1..Len(text) :
                     \/ n \in breakAt
                     \/ (n - 1 \in breakAt)
                     \/ (n - 2 \in breakAt /\ text[n - 1] = CR)}
    IN  Select(text, (1..Len(text)) \ gone)

RECURSIVE QpScan(_, _)
\* the for loop of qpDecodeToBytes from the 0-based index i on
QpScan(src, i) ==
    IF i >= Len(src) THEN <<>>
    ELSE IF /\ src[i + 1] = "="
            /\ i + 2 < Len(src)
            /\ IsHexDigit(src[i + 2])
            /\ IsHexDigit(src[i + 3])
         THEN <<ParseHexPair(src[i + 2], src[i + 3])>> \o QpScan(src, i + 3)
         ELSE <<CharCode(src[i + 1])>> \o QpScan(src, i + 1)

\* a decoder that scans the text with its soft line breaks left in
qpDecodeKeepingBreaks(text) == QpScan(text, 0)

\* qpDecodeToBytes(text)
qpDecodeToBytes(text) == QpScan(RemoveSoftBreaks(text), 0)

\* the base64 alphabet
Base64Alphabet ==
    <<"A", "B", "C", "D", "E", "F", "G", "H", "I", "J", "K", "L", "M", "N",
       "O", "P", "Q", "R", "S", "T", "U", "V", "W", "X", "Y", "Z", "a", "b",
       "c", "d", "e", "f", "g", "h", "i", "j", "k", "l", "m", "n", "o", "p",
       "q", "r", "s", "t", "u", "v", "w", "x", "y", "z", "0", "1", "2", "3",
       "4", "5", "6", "7", "8", "9", "+", "/">>

Base64Value(c) == (CHOOSE n \in 1..64 : Base64Alphabet[n] = c) - 1

RECURSIVE BtoaFrom(_, _)
\* btoa: three bytes become four characters, the last group padded with "="
BtoaFrom(bin, i) ==
    IF i > Len(bin) THEN <<>>
    ELSE LET b1 == CharCode(bin[i])
             b2 == IF i + 1 <= Len(bin) THEN CharCode(bin[i + 1]) ELSE 0
             b3 == IF i + 2 <= Len(bin) THEN CharCode(bin[i + 2]) ELSE 0
             c1 == Base64Alphabet[(b1 \div 4) + 1]
             c2 == Base64Alphabet[((b1 % 4) * 16 + b2 \div 16) + 1]
             c3 == IF i + 1 <= Len(bin) THEN Base64Alphabet[((b2 % 16) * 4 + b3 \div 64) + 1]
                   ELSE "="
             c4 == IF i + 2 <= Len(bin) THEN Base64Alphabet[(b3 % 64) + 1] ELSE "="
         IN  <<c1, c2, c3, c4>> \o BtoaFrom(bin, i + 3)

Btoa(bin) == BtoaFrom(bin, 1)

\* the data characters atob decodes: a padded text of whole groups loses its
\* one or two trailing "="
AtobData(text) ==
    IF Len(text) % 4 = 0 /\ Len(text) > 0 /\ text[Len(text)] = "="
    THEN IF text[Len(text) - 1] = "="
         THEN SubSeq(text, 1, Len(text) - 2)
         ELSE SubSeq(text, 1, Len(text) - 1)
    ELSE text

\* atob throws for a character outside the alphabet and for a lone
\* character left over after the groups of four
AtobThrows(text) ==
    LET data == AtobData(text)
    IN  \/ Len(data) % 4 = 1
        \/ \E n \in 1..Len(data) : \A m \in 1..64 : Base64Alphabet[m] # data[n]

RECURSIVE AtobFrom(_, _)
AtobFrom(data, i) ==
    IF i > Len(data) THEN <<>>
    ELSE LET v1 == Base64Value(data[i])
             v2 == Base64Value(data[i + 1])
             b1 == <<FromCharCode(v1 * 4 + v2 \div 16)>>
             b2 == IF i + 2 <= Len(data)
                   THEN <<FromCharCode((v2 % 16) * 16 + Base64Value(data[i + 2]) \div 4)>>
                   ELSE <<>>
             b3 == IF i + 3 <= Len(data)
                   THEN <<FromCharCode((Base64Value(data[i + 2]) % 4) * 64
                                       + Base64Value(data[i + 3]))>>
                   ELSE <<>>
         IN  b1 \o b2 \o b3 \o AtobFrom(data, i + 4)

\* atob(text) for a text it accepts
Atob(text) == AtobFrom(AtobData(text), 1)

\* text.replace(/[\r\n\s]/g, "")
RemoveWhiteSpace(text) == Select(text, {n \in 1..Len(text) : text[n] \notin WhiteSpace})

\* base64ToBytes: <<>> stands for the exception atob throws, <<bytes>> for
\* the bytes returned
base64ToBytes(text) ==
    LET cleaned == RemoveWhiteSpace(text)
    IN  IF AtobThrows(cleaned) THEN <<>> ELSE <<latin1ToBytes(Atob(cleaned))>>

\* bytesToBase64, for fewer bytes than one chunk of 0x8000
bytesToBase64(bytes) == Btoa(Latin1Decode(bytes))

(***************************************************************************)
(* The MIME splitter: parseHeaders, getParam, parseMhtmlParts              *)
(***************************************************************************)
\* s.indexOf(sub, from)
IndexOfSub(s, sub, from) ==
    LET at == {a \in from..(Len(s) - Len(sub)) : Slice(s, a, a + Len(sub)) = sub}
    IN  IF at = {} THEN -1 ELSE Least(at)

RECURSIVE SplitOn(_, _)
\* s.split(sub) for a non-empty sub
SplitOn(s, sub) ==
    LET i == IndexOfSub(s, sub, 0)
    IN  IF i = -1 THEN <<s>>
        ELSE <<Slice(s, 0, i)>> \o SplitOn(Slice(s, i + Len(sub), Len(s)), sub)

CrLfCrLf == <<CR, LF, CR, LF>>

LfLf == <<LF, LF>>

\* text.replace(/\r\n/g, "\n")
CrLfToLf(s) ==
    Select(s, {n \in 1..Len(s) : ~(s[n] = CR /\ n + 1 <= Len(s) /\ s[n + 1] = LF)})

\* a header map is a sequence of [key, value] entries; headers[name] is
\* <<>> when the name is absent (undefined) or its value is empty
HeaderGet(headers, name) ==
    IF \E n \in 1..Len(headers) : headers[n].key = name
    THEN headers[CHOOSE n \in 1..Len(headers) : headers[n].key = name].value
    ELSE <<>>

\* out[key] = value
HeaderSet(headers, name, value) ==
    IF \E n \in 1..Len(headers) : headers[n].key = name
    THEN [n \in 1..Len(headers) |->
             IF headers[n].key = name THEN [key |-> name, value |-> value] ELSE headers[n]]
    ELSE Append(headers, [key |-> name, value |-> value])

\* one iteration of parseHeaders' loop; st.key is <<>> for null, <<k>> for k
HeaderLine(st, line) ==
    LET colon == IndexOfSub(line, <<":">>, 0)
        name == ToLowerCase(Trim(Slice(line, 0, colon)))
    IN  IF Trim(line) = <<>> THEN st
        ELSE IF /\ (StartsWith(line, <<SP>>) \/ StartsWith(line, <<TAB>>))
                /\ st.key # <<>>
                /\ st.key[1] # <<>>
             THEN [st EXCEPT !.out = HeaderSet(st.out, st.key[1],
                                               HeaderGet(st.out, st.key[1]) \o <<SP>> \o Trim(line))]
        ELSE IF colon < 0 THEN st
        ELSE [out |-> HeaderSet(st.out, name, Trim(Slice(line, colon + 1, Len(line)))),
              key |-> <<name>>]

RECURSIVE HeaderLines(_, _)
HeaderLines(st, lines) ==
    IF lines = <<>> THEN st ELSE HeaderLines(HeaderLine(st, Head(lines)), Tail(lines))

parseHeaders(headerText) ==
    HeaderLines([out |-> <<>>, key |-> <<>>], SplitLf(CrLfToLf(headerText))).out

\* the end of the run of characters of s from the 0-based index i on that
\* all lie in (or, with inside = FALSE, all lie outside) the set chars
RECURSIVE RunOf(_, _, _, _)
RunOf(s, i, chars, inside) ==
    IF i < Len(s) /\ ((s[i + 1] \in chars) = inside)
    THEN RunOf(s, i + 1, chars, inside)
    ELSE i

\* the match of key\s*=\s*("([^"]+)"|([^;\s]+)) that starts at index a of
\* value, ignoring case: <<>> when there is none, else <<m[2] || m[3]>>
ParamMatchAt(value, key, a) ==
    LET afterKey == a + Len(key)
        eq == RunOf(value, afterKey, WhiteSpace, TRUE)
        v == RunOf(value, eq + 1, WhiteSpace, TRUE)
        quoteEnd == RunOf(value, v + 1, {"\""}, FALSE)
        bareEnd == RunOf(value, v, WhiteSpace \cup {";"}, FALSE)
    IN  IF ~(/\ afterKey <= Len(value)
             /\ ToLowerCase(Slice(value, a, afterKey)) = ToLowerCase(key)
             /\ eq < Len(value)
             /\ value[eq + 1] = "=")
        THEN <<>>
        ELSE IF /\ v < Len(value)
                /\ value[v + 1] = "\""
                /\ quoteEnd > v + 1
                /\ quoteEnd < Len(value)
             THEN <<Slice(value, v + 1, quoteEnd)>>
        ELSE IF bareEnd > v THEN <<Slice(value, v, bareEnd)>>
        ELSE <<>>

\* getParam: <<>> for null, <<p>> for the string p
getParam(headerValue, key) ==
    LET at == {a \in 0..Len(headerValue) : ParamMatchAt(headerValue, key, a) # <<>>}
    IN  IF headerValue = <<>> THEN <<>>
        ELSE IF at = {} THEN <<>>
        ELSE <<Trim(ParamMatchAt(headerValue, key, Least(at))[1])>>

ContentTypeName == <<"c", "o", "n", "t", "e", "n", "t", "-", "t", "y", "p", "e">>

ContentTransferEncodingName ==
    <<"c", "o", "n", "t", "e", "n", "t", "-", "t", "r", "a", "n", "s", "f",
       "e", "r", "-", "e", "n", "c", "o", "d", "i", "n", "g">>

BoundaryName == <<"b", "o", "u", "n", "d", "a", "r", "y">>

CharsetName == <<"c", "h", "a", "r", "s", "e", "t">>

Base64Name == <<"b", "a", "s", "e", "6", "4">>

QuotedPrintableName == <<"q", "u", "o", "t", "e", "d", "-", "p", "r", "i", "n", "t", "a", "b", "l", "e">>

OctetStream ==
    <<"a", "p", "p", "l", "i", "c", "a", "t", "i", "o", "n", "/", "o", "c",
       "t", "e", "t", "-", "s", "t", "r", "e", "a", "m">>

TextHtml == <<"t", "e", "x", "t", "/", "h", "t", "m", "l">>

\* the separator of headers and body that the code looks for in text
SeparatorOf(text) == IF IndexOfSub(text, CrLfCrLf, 0) >= 0 THEN CrLfCrLf ELSE LfLf

\* sec.replace(/^\r?\n/, "")
StripLeadingBreak(s) ==
    IF StartsWith(s, <<CR, LF>>) THEN SubSeq(s, 3, Len(s))
    ELSE IF StartsWith(s, <<LF>>) THEN SubSeq(s, 2, Len(s))
    ELSE s

\* pBody.replace(/\r?\n$/, "")
StripTrailingBreak(s) ==
    IF EndsWith(s, <<CR, LF>>) THEN SubSeq(s, 1, Len(s) - 2)
    ELSE IF EndsWith(s, <<LF>>) THEN SubSeq(s, 1, Len(s) - 1)
    ELSE s

\* the body of the loop over the sections: <<>> for a skipped section,
\* <<part>> for a part; part.bytes is <<>> when base64ToBytes throws
SectionPart(section) ==
    LET sec == StripLeadingBreak(section)
        partSep == SeparatorOf(sec)
        sepAt == IndexOfSub(sec, partSep, 0)
        pHeaders == parseHeaders(Slice(sec, 0, sepAt))
        pBody == StripTrailingBreak(Slice(sec, sepAt + Len(partSep), Len(sec)))
        cte == ToLowerCase(HeaderGet(pHeaders, ContentTransferEncodingName))
        pBytes == IF Contains(cte, Base64Name) THEN base64ToBytes(pBody)
                  ELSE IF Contains(cte, QuotedPrintableName) THEN <<qpDecodeToBytes(pBody)>>
                  ELSE <<latin1ToBytes(pBody)>>
        ctypeHeader == HeaderGet(pHeaders, ContentTypeName)
        ctype == ToLowerCase(Trim(SplitOn(IF ctypeHeader = <<>> THEN OctetStream ELSE ctypeHeader,
                                          <<";">>)[1]))
    IN  IF sec = <<>> \/ StartsWith(sec, <<"-", "-">>) THEN <<>>
        ELSE IF sepAt < 0 THEN <<>>
        ELSE <<[headers |-> pHeaders,
                contentType |-> ctype,
                charset |-> getParam(ctypeHeader, CharsetName),
                bytes |-> pBytes]>>

RECURSIVE SectionParts(_)
SectionParts(sections) ==
    IF sections = <<>> THEN <<>>
    ELSE SectionPart(Head(sections)) \o SectionParts(Tail(sections))

\* parseMhtmlParts from the split of the body on: error is "none" when the
\* part list is returned, and names the exception thrown otherwise
PartsOfBody(bodyText, boundary) ==
    LET marker == <<"-", "-">> \o boundary
        sections == Tail(SplitOn(bodyText, marker))
        parts == SectionParts(sections)
    IN  IF \E n \in 1..Len(parts) : parts[n].bytes = <<>>
        THEN [error |-> "atob", parts |-> <<>>]
        ELSE [error |-> "none",
              parts |-> [n \in 1..Len(parts) |->
                            [parts[n] EXCEPT !.bytes = parts[n].bytes[1]]]]

\* a splitter that takes a missing boundary for the empty boundary
parseMhtmlPartsAnyBoundary(bytes) ==
    LET latin1 == Latin1Decode(bytes)
        sep == SeparatorOf(latin1)
        headEnd == IndexOfSub(latin1, sep, 0)
        boundary == getParam(HeaderGet(parseHeaders(Slice(latin1, 0, headEnd)),
                                       ContentTypeName), BoundaryName)
    IN  IF headEnd < 0 THEN [error |-> "separator", parts |-> <<>>]
        ELSE PartsOfBody(Slice(latin1, headEnd + Len(sep), Len(latin1)),
                         IF boundary = <<>> THEN <<>> ELSE boundary[1])

parseMhtmlParts(bytes) ==
    LET latin1 == Latin1Decode(bytes)
        sep == SeparatorOf(latin1)
        headEnd == IndexOfSub(latin1, sep, 0)
        rootHeaders == parseHeaders(Slice(latin1, 0, headEnd))
        rootCtype == HeaderGet(rootHeaders, ContentTypeName)
        boundary == getParam(rootCtype, BoundaryName)
    IN  IF headEnd < 0 THEN [error |-> "separator", parts |-> <<>>]
        ELSE IF boundary = <<>> \/ boundary[1] = <<>>
             THEN [error |-> "boundary", parts |-> <<>>]
        ELSE PartsOfBody(Slice(latin1, headEnd + Len(sep), Len(latin1)), boundary[1])

(***************************************************************************)
(* The choice of the main HTML                                             *)
(***************************************************************************)
\* the indexes of the text/html parts, in document order
HtmlPartIndexes(parts) ==
    SortedIndexes(parts, {n \in 1..Len(parts) : parts[n].contentType = TextHtml})

\* a choice of the first part, whatever its content type
getFirstPart(parts) == IF Len(parts) = 0 THEN 0 ELSE 1

\* getMainHtmlPart: the index of the part returned, 0 for the exception
getMainHtmlPart(parts) ==
    LET htmlParts == HtmlPartIndexes(parts)
    IN  IF Len(htmlParts) = 0 THEN 0 ELSE htmlParts[1]

RoleAttributeMarker ==
    <<"d", "a", "t", "a", "-", "m", "e", "s", "s", "a", "g", "e", "-", "a",
       "u", "t", "h", "o", "r", "-", "r", "o", "l", "e">>

UserQueryMarker ==
    <<"<", "u", "s", "e", "r", "-", "q", "u", "e", "r", "y">>

MessageContentMarker ==
    <<"<", "m", "e", "s", "s", "a", "g", "e", "-", "c", "o", "n", "t", "e",
       "n", "t">>

\* markers.some((m) => lower.includes(m))
HasChatMarker(text) ==
    LET lower == ToLowerCase(text)
    IN  \/ Contains(lower, RoleAttributeMarker)
        \/ Contains(lower, UserQueryMarker)
        \/ Contains(lower, MessageContentMarker)

\* candidates.sort((a, b) => b.length - a.length)[0], the sort being stable:
\* the first of the longest candidates.  A candidate is the index of a
\* text/html part, its text the part's body.
LongestCandidate(parts, candidates) ==
    candidates[Least({k \in 1..Len(candidates) :
                         \A m \in 1..Len(candidates) :
                             Len(parts[candidates[m]].bytes) <= Len(parts[candidates[k]].bytes)})]

\* extractMainHtmlFromMhtml (mhtml2md-grok.js) and the extractors of the
\* general and GLM command-line converters, the candidates being the
\* document's text/html bodies in document order
extractMainHtmlFromMhtml(parts) ==
    LET candidates == HtmlPartIndexes(parts)
    IN  IF Len(candidates) = 0 THEN 0 ELSE LongestCandidate(parts, candidates)

\* extractHtmlFromMhtml (mhtml2txt.js)
extractHtmlFromMhtml(parts) ==
    LET candidates == HtmlPartIndexes(parts)
        marked == {k \in 1..Len(candidates) :
                       HasChatMarker(Latin1Decode(parts[candidates[k]].bytes))}
    IN  IF Len(candidates) = 0 THEN 0
        ELSE IF marked # {} THEN candidates[Least(marked)]
        ELSE LongestCandidate(parts, candidates)

(***************************************************************************)
(* The MIME splitter and the choice of the main HTML: inputs and           *)
(* specification.  A file is a head (root headers, perhaps a separator)    *)
(* followed by at most MaxSections sections, each behind the boundary      *)
(* marker --B.                                                             *)
(***************************************************************************)
MaxSections == 2

\* a boundary, CR LF line ends
HeadCrLf ==
    <<"C", "o", "n", "t", "e", "n", "t", "-", "T", "y", "p", "e", ":", " ",
       "m", "u", "l", "t", "i", "p", "a", "r", "t", "/", "r", "e", "l", "a",
       "t", "e", "d", ";", " ", "b", "o", "u", "n", "d", "a", "r", "y", "=",
       "B", CR, LF, CR, LF>>

\* a quoted boundary on a folded line
HeadFolded ==
    <<"M", "I", "M", "E", "-", "V", "e", "r", "s", "i", "o", "n", ":", " ",
       "1", ".", "0", LF, "C", "o", "n", "t", "e", "n", "t", "-", "T", "y",
       "p", "e", ":", " ", "m", "u", "l", "t", "i", "p", "a", "r", "t", "/",
       "r", "e", "l", "a", "t", "e", "d", ";", LF, TAB, "b", "o", "u", "n",
       "d", "a", "r", "y", "=", "\"", "B", "\"", LF, LF>>

\* no boundary parameter
HeadNoBoundary ==
    <<"C", "o", "n", "t", "e", "n", "t", "-", "T", "y", "p", "e", ":", " ",
       "m", "u", "l", "t", "i", "p", "a", "r", "t", "/", "r", "e", "l", "a",
       "t", "e", "d", LF, LF>>

\* a boundary parameter without a value
HeadEmptyBoundary ==
    <<"C", "o", "n", "t", "e", "n", "t", "-", "T", "y", "p", "e", ":", " ",
       "m", "u", "l", "t", "i", "p", "a", "r", "t", "/", "r", "e", "l", "a",
       "t", "e", "d", ";", " ", "b", "o", "u", "n", "d", "a", "r", "y", "=",
       ";", LF, LF>>

\* no Content-Type header
HeadNoContentType ==
    <<"S", "u", "b", "j", "e", "c", "t", ":", " ", "x", LF, LF>>

\* no blank line after the root headers
HeadNoSeparator ==
    <<"C", "o", "n", "t", "e", "n", "t", "-", "T", "y", "p", "e", ":", " ",
       "m", "u", "l", "t", "i", "p", "a", "r", "t", "/", "r", "e", "l", "a",
       "t", "e", "d", ";", " ", "b", "o", "u", "n", "d", "a", "r", "y", "=",
       "B", LF>>

Heads ==
    {HeadCrLf, HeadFolded, HeadNoBoundary, HeadEmptyBoundary, HeadNoContentType,
     HeadNoSeparator}

\* a short HTML part
SectionHtml ==
    <<CR, LF, "C", "o", "n", "t", "e", "n", "t", "-", "T", "y", "p", "e",
       ":", " ", "T", "e", "x", "t", "/", "H", "T", "M", "L", ";", " ", "c",
       "h", "a", "r", "s", "e", "t", "=", "u", "t", "f", "-", "8", CR, LF,
       CR, LF, "x", CR, LF>>

\* an HTML part with a chat marker
SectionChatHtml ==
    <<LF, "C", "o", "n", "t", "e", "n", "t", "-", "T", "y", "p", "e", ":",
       " ", "t", "e", "x", "t", "/", "h", "t", "m", "l", LF, LF, "<", "u",
       "s", "e", "r", "-", "q", "u", "e", "r", "y", ">", "y", LF>>

\* a quoted-printable HTML part
SectionQpHtml ==
    <<LF, "C", "o", "n", "t", "e", "n", "t", "-", "T", "y", "p", "e", ":",
       " ", "t", "e", "x", "t", "/", "h", "t", "m", "l", LF, "C", "o", "n",
       "t", "e", "n", "t", "-", "T", "r", "a", "n", "s", "f", "e", "r", "-",
       "E", "n", "c", "o", "d", "i", "n", "g", ":", " ", "q", "u", "o", "t",
       "e", "d", "-", "p", "r", "i", "n", "t", "a", "b", "l", "e", LF, LF,
       "a", "=", "3", "D", "b", "=", LF, "c", LF>>

\* a base64 image part
SectionImage ==
    <<LF, "C", "o", "n", "t", "e", "n", "t", "-", "T", "y", "p", "e", ":",
       " ", "i", "m", "a", "g", "e", "/", "p", "n", "g", LF, "C", "o", "n",
       "t", "e", "n", "t", "-", "T", "r", "a", "n", "s", "f", "e", "r", "-",
       "E", "n", "c", "o", "d", "i", "n", "g", ":", " ", "b", "a", "s", "e",
       "6", "4", LF, LF, "e", "A", "=", "=", LF>>

\* a part without a Content-Type header
SectionNoType ==
    <<LF, "X", "-", "A", ":", " ", "1", LF, LF, "x", LF>>

\* a part whose Content-Type value starts with the parameters
SectionEmptyType ==
    <<LF, "C", "o", "n", "t", "e", "n", "t", "-", "T", "y", "p", "e", ":",
       " ", ";", "q", "=", "1", LF, LF, "x", LF>>

\* a section without a blank line
SectionNoSeparator ==
    <<LF, "C", "o", "n", "t", "e", "n", "t", "-", "T", "y", "p", "e", ":",
       " ", "t", "e", "x", "t", "/", "h", "t", "m", "l", LF>>

\* a part whose first header line starts with two hyphens
SectionDashHeader ==
    <<LF, "-", "-", "X", ":", " ", "1", LF, LF, "x", LF>>

\* a part whose body ends with two line breaks
SectionTwoBreaks ==
    <<LF, "C", "o", "n", "t", "e", "n", "t", "-", "T", "y", "p", "e", ":",
       " ", "t", "e", "x", "t", "/", "p", "l", "a", "i", "n", LF, LF, "x",
       LF, LF>>

\* the closing delimiter
SectionEnd ==
    <<"-", "-", LF>>

Sections ==
    {SectionHtml, SectionChatHtml, SectionQpHtml, SectionImage, SectionNoType,
     SectionEmptyType, SectionNoSeparator, SectionDashHeader, SectionTwoBreaks,
     SectionEnd}

\* the text between the root headers and the first boundary marker: none,
\* or text that has the form of a part
Preambles ==
    {<<>>,
     <<"C", "o", "n", "t", "e", "n", "t", "-", "T", "y", "p", "e", ":", " ",
        "t", "e", "x", "t", "/", "h", "t", "m", "l", LF, LF, "p", LF>>}

BoundaryMarker == <<"-", "-", "B">>

RECURSIVE BodyOf(_)
BodyOf(secs) ==
    IF secs = <<>> THEN <<>> ELSE BoundaryMarker \o Head(secs) \o BodyOf(Tail(secs))

MhtmlTexts ==
    {head \o pre \o BodyOf(secs) :
        head \in Heads, pre \in Preambles,
        secs \in UNION {[1..n -> Sections] : n \in 0..MaxSections}}

MimeInit ==
    /\ mhtml \in {latin1ToBytes(text) : text \in MhtmlTexts}
    /\ mimeResult = [error |-> "none", parts |-> <<>>]
    /\ mainKind = "none"
    /\ mainIndex = 0
    /\ mimePc = "bytes"
    /\ Idle("mime")

\* converter.run(bytes) up to the call of the converter proper
ParseMhtmlParts ==
    /\ mimePc = "bytes"
    /\ mimeResult' = parseMhtmlParts(mhtml)
    /\ mimePc' = "parsed"
    /\ UNCHANGED <<mhtml, mainKind, mainIndex, exceptMime>>

\* the first statement of every browser converter
GetMainHtmlPart ==
    /\ mimePc = "parsed" /\ mimeResult.error = "none"
    /\ mainKind' = "getMainHtmlPart"
    /\ mainIndex' = getMainHtmlPart(mimeResult.parts)
    /\ mimePc' = "chosen"
    /\ UNCHANGED <<mhtml, mimeResult, exceptMime>>

\* the qa-text command-line converter
ExtractHtmlFromMhtml ==
    /\ mimePc = "parsed" /\ mimeResult.error = "none"
    /\ mainKind' = "extractHtmlFromMhtml"
    /\ mainIndex' = extractHtmlFromMhtml(mimeResult.parts)
    /\ mimePc' = "chosen"
    /\ UNCHANGED <<mhtml, mimeResult, exceptMime>>

\* the Grok, GLM and general command-line converters
ExtractMainHtmlFromMhtml ==
    /\ mimePc = "parsed" /\ mimeResult.error = "none"
    /\ mainKind' = "extractMainHtmlFromMhtml"
    /\ mainIndex' = extractMainHtmlFromMhtml(mimeResult.parts)
    /\ mimePc' = "chosen"
    /\ UNCHANGED <<mhtml, mimeResult, exceptMime>>

MimeNext ==
    ParseMhtmlParts \/ GetMainHtmlPart \/ ExtractHtmlFromMhtml \/ ExtractMainHtmlFromMhtml

SpecMime == MimeInit /\ [][MimeNext]_vars

(***************************************************************************)
(* C11 .. C13                                                              *)
(***************************************************************************)
MhtmlText == Latin1Decode(mhtml)

NoHeaderSeparator(text) == ~Contains(text, CrLfCrLf) /\ ~Contains(text, LfLf)

\* the value of the root Content-Type header of a text with a separator
RootContentType(text) ==
    HeaderGet(parseHeaders(Slice(text, 0, IndexOfSub(text, SeparatorOf(text), 0))),
              ContentTypeName)

\* no "boundary", "=" and a first character of a value, with blanks at most
\* around the "=", stand anywhere in the value
NoBoundaryParameter(value) ==
    ~\E a \in 0..Len(value) :
        LET eq == RunOf(value, a + Len(BoundaryName), WhiteSpace, TRUE)
            v == RunOf(value, eq + 1, WhiteSpace, TRUE)
        IN  /\ a + Len(BoundaryName) <= Len(value)
            /\ ToLowerCase(Slice(value, a, a + Len(BoundaryName))) = BoundaryName
            /\ eq < Len(value) /\ value[eq + 1] = "="
            /\ v < Len(value) /\ value[v + 1] \notin {";"}

\* C11: parseMhtmlParts fails, and returns no part list, whenever the input
\* has no blank-line separator of headers and body, and whenever the root
\* Content-Type header has no boundary parameter.
C11_MalformedMime ==
    (/\ mimePc # "bytes"
     /\ \/ NoHeaderSeparator(MhtmlText)
        \/ NoBoundaryParameter(RootContentType(MhtmlText)))
    => (mimeResult.error \in {"separator", "boundary"} /\ mimeResult.parts = <<>>)

\* a file with a separator and parts behind a marker, but no boundary
\* parameter, was refused
C11_Witness ==
    /\ mimePc = "parsed"
    /\ MhtmlText = HeadNoBoundary \o BoundaryMarker \o SectionHtml
    /\ mimeResult.error = "boundary"

\* a file without any blank line was refused
C11_WitnessNoSeparator ==
    /\ mimePc = "parsed"
    /\ MhtmlText = HeadNoSeparator \o BoundaryMarker \o SectionEnd
    /\ mimeResult.error = "separator"

IsHtmlPart(n) == mimeResult.parts[n].contentType = TextHtml

HtmlParts == {n \in 1..Len(mimeResult.parts) : IsHtmlPart(n)}

BodyLength(n) == Len(mimeResult.parts[n].bytes)

FirstLongest(n) ==
    /\ n \in HtmlParts
    /\ \A m \in HtmlParts : BodyLength(m) <= BodyLength(n)
    /\ \A m \in HtmlParts : m < n => BodyLength(m) < BodyLength(n)

MarkedHtmlParts ==
    {n \in HtmlParts : HasChatMarker(Latin1Decode(mimeResult.parts[n].bytes))}

C13_PartsInvariant ==
    (mimePc # "bytes" /\ mimeResult.error = "none")
    => /\ Len(mimeResult.parts) >= 1
       /\ \A n \in 1..Len(mimeResult.parts) :
              LET ctype == mimeResult.parts[n].contentType
              IN  /\ ctype # <<>>
                  /\ ctype = ToLowerCase(ctype)
                  /\ ~Contains(ctype, <<";">>)


(***************************************************************************)
(* The codecs on their own: quoted-printable texts and data URIs           *)
(***************************************************************************)
DataPrefix == <<"d", "a", "t", "a", ":">>

Base64Comma == <<";", "b", "a", "s", "e", "6", "4", ",">>

ImagePng == <<"i", "m", "a", "g", "e", "/", "p", "n", "g">>

\* a data URI that leaves the content type as it is
toDataUriNoFallback(part) ==
    DataPrefix \o part.contentType \o Base64Comma \o bytesToBase64(part.bytes)

\* toDataUri(part)
toDataUri(part) ==
    DataPrefix
        \o (IF part.contentType # <<>> THEN part.contentType ELSE OctetStream)
        \o Base64Comma \o bytesToBase64(part.bytes)

\* the number of units of a quoted-printable text
MaxQpUnits == 2

\* the number of bytes of a part
MaxPartBytes == 3

\* the bytes a quoted-printable text is made from: NUL, LF, "=", "A", 0xFF
QpByteValues == {0, 10, 61, 65, 255}

\* the bytes of a part
PartByteValues == {0, 65, 200, 255}

\* a printable character other than "=", which an encoder may leave as it is
QpLiteral(b) == b \in 33..126 /\ b # 61

\* one unit of an encoded text: a byte, written as a literal or as an escape
\* in upper or lower case hex digits, and the soft line break after it
QpUnits ==
    {u \in [byte : QpByteValues, form : {"literal", "upper", "lower"},
            break : {"none", "lf", "crlf"}] :
        u.form = "literal" => QpLiteral(u.byte)}

QpUnitText(u) ==
    (CASE u.form = "literal" -> <<FromCharCode(u.byte)>>
       [] u.form = "upper" ->
            <<"=", HexDigits[(u.byte \div 16) + 1], HexDigits[(u.byte % 16) + 1]>>
       [] u.form = "lower" ->
            <<"=", HexDigitsLower[(u.byte \div 16) + 1],
              HexDigitsLower[(u.byte % 16) + 1]>>)
    \o (CASE u.break = "none" -> <<>>
          [] u.break = "lf" -> <<"=", LF>>
          [] u.break = "crlf" -> <<"=", CR, LF>>)

RECURSIVE QpEncode(_)
\* the text of a sequence of units
QpEncode(units) ==
    IF units = <<>> THEN <<>>
    ELSE QpUnitText(Head(units)) \o QpEncode(Tail(units))

QpPlans == UNION {[1..n -> QpUnits] : n \in 0..MaxQpUnits}

PartBytes == UNION {[1..n -> PartByteValues] : n \in 0..MaxPartBytes}

\* what follows the first comma of a data URI
DataUriPayload(uri) ==
    LET comma == IndexOfSub(uri, <<",">>, 0)
    IN  Slice(uri, comma + 1, Len(uri))

CodecInit ==
    /\ \/ /\ \E units \in QpPlans :
                /\ codecBytes = [n \in 1..Len(units) |-> units[n].byte]
                /\ codecText = QpEncode(units)
          /\ codecType = <<>>
          /\ codecPc = "qp"
       \/ /\ codecBytes \in PartBytes
          /\ codecType \in {ImagePng, TextHtml, <<>>}
          /\ codecText = <<>>
          /\ codecPc = "part"
    /\ codecOut = <<>>
    /\ Idle("codec")

\* qpDecodeToBytes(text) on a quoted-printable text
QpDecodeToBytes ==
    /\ codecPc = "qp"
    /\ codecOut' = <<qpDecodeToBytes(codecText)>>
    /\ codecPc' = "qpDecoded"
    /\ UNCHANGED <<codecBytes, codecType, codecText, exceptCodec>>

\* toDataUri(part)
ToDataUri ==
    /\ codecPc = "part"
    /\ codecText' = toDataUri([contentType |-> codecType, bytes |-> codecBytes])
    /\ codecPc' = "uri"
    /\ UNCHANGED <<codecBytes, codecType, codecOut, exceptCodec>>

\* base64ToBytes(text) on the payload of the data URI
Base64ToBytes ==
    /\ codecPc = "uri"
    /\ codecOut' = base64ToBytes(DataUriPayload(codecText))
    /\ codecPc' = "decoded"
    /\ UNCHANGED <<codecBytes, codecType, codecText, exceptCodec>>

CodecNext ==
    \/ QpDecodeToBytes
    \/ ToDataUri
    \/ Base64ToBytes

SpecCodec == CodecInit /\ [][CodecNext]_vars

\* C14: a quoted-printable text made of literal printable characters,
\* "=XX" escapes and soft line breaks decodes with qpDecodeToBytes to
\* exactly the bytes it was made from
C14_QpRoundTrip ==
    codecPc = "qpDecoded" => codecOut = <<codecBytes>>

\* an escape is the last three characters of the text, after a soft break
C14_Witness ==
    /\ codecPc = "qpDecoded"
    /\ codecText = <<"A", "=", CR, LF, "=", "f", "f">>
    /\ codecOut = <<<<65, 255>>>>


\* what follows the prefix "data:", type, ";base64," of a data URI
AfterType(uri, type) ==
    Slice(uri, Len(DataPrefix \o type \o Base64Comma), Len(uri))

\* the data URI has the form stated for the type, and its payload decodes
\* with base64ToBytes to the bytes of the part
DataUriOfType(type) ==
    /\ StartsWith(codecText, DataPrefix \o type \o Base64Comma)
    /\ base64ToBytes(AfterType(codecText, type)) = <<codecBytes>>
    /\ codecPc = "decoded" => codecOut = <<codecBytes>>

CidPrefix == <<"c", "i", "d", ":">>

\* normalizeCid(value)
normalizeCid(value) ==
    LET cid == Trim(IF StartsWith(value, CidPrefix)
                    THEN Slice(value, 4, Len(value)) ELSE value)
        a == IF cid # <<>> /\ cid[1] = "<" THEN 1 ELSE 0
        rest == Slice(cid, a, Len(cid))
    IN  IF rest # <<>> /\ rest[Len(rest)] = ">"
        THEN Slice(rest, 0, Len(rest) - 1) ELSE rest

\* the keys that buildCidMap sets for one part
KeysOfPart(part) ==
    LET contentId == Trim(part.contentId)
        contentLoc == Trim(part.contentLocation)
    IN  (IF contentId # <<>> THEN {normalizeCid(contentId)} ELSE {})
        \cup (IF StartsWith(contentLoc, CidPrefix)
              THEN {normalizeCid(contentLoc)} ELSE {})

\* cidMap.has(key) for the map that buildCidMap(parts) returns
CidMapHas(parts, key) == \E n \in 1..Len(parts) : key \in KeysOfPart(parts[n])

\* cidMap.get(key): the part that set the key last
CidMapGet(parts, key) ==
    parts[CHOOSE n \in 1..Len(parts) :
            /\ key \in KeysOfPart(parts[n])
            /\ \A k \in (n + 1)..Len(parts) : key \notin KeysOfPart(parts[k])]

RECURSIVE RemoveStars(_)
\* text.replace(/\*\*/g, "")
RemoveStars(text) ==
    IF Len(text) < 2 THEN text
    ELSE IF text[1] = "*" /\ text[2] = "*" THEN RemoveStars(Slice(text, 2, Len(text)))
    ELSE <<text[1]>> \o RemoveStars(Tail(text))

\* the first loop: a link whose href begins with "cid:" is replaced by a
\* style element or removed
LinkGone(el) == el.tag = "link" /\ StartsWith(el.value, CidPrefix)

\* the loop over src, href and poster: the value the attribute is left with
RewrittenValue(parts, el) ==
    IF ~StartsWith(el.value, CidPrefix) THEN el.value
    ELSE IF CidMapHas(parts, normalizeCid(el.value))
         THEN toDataUri(CidMapGet(parts, normalizeCid(el.value)))
         ELSE el.value

Preload == <<"p", "r", "e", "l", "o", "a", "d">>

\* rel.toLowerCase().split(/\s+/).includes(token)
RelIncludes(rel, token) ==
    LET lower == ToLowerCase(rel)
    IN  \E a \in 0..(Len(lower) - Len(token)) :
            /\ Slice(lower, a, a + Len(token)) = token
            /\ a = 0 \/ lower[a] \in WhiteSpace
            /\ a + Len(token) = Len(lower) \/ lower[a + Len(token) + 1] \in WhiteSpace

\* the elements that the later steps take out of the document: preload
\* links, scripts, and what is outside chat-window-content when there is one
RemovedLater(hasConv, el) ==
    \/ el.tag = "link" /\ RelIncludes(el.rel, Preload)
    \/ el.tag = "script"
    \/ hasConv /\ el.place = "body"

TextCss == <<"t", "e", "x", "t", "/", "c", "s", "s">>

Quotes == {"'", "\""}

\* the index after the longest run, from index i on, of characters that
\* are not in stop
RECURSIVE RunUntil(_, _, _)
RunUntil(text, i, stop) ==
    IF i <= Len(text) /\ text[i] \notin stop THEN RunUntil(text, i + 1, stop) ELSE i

\* the characters of text that are not white space
NonWhiteSpace(text) == {text[n] : n \in 1..Len(text)} \ WhiteSpace

\* text, taken without regard to case, has lit at index i
HasAt(text, i, lit) ==
    /\ i + Len(lit) - 1 <= Len(text)
    /\ ToLowerCase(SubSeq(text, i, i + Len(lit) - 1)) = lit

IsAt(text, i, chars) == i <= Len(text) /\ text[i] \in chars

\* a match of /url\(['"]?(cid:[^)"']+)['"]?\)/gi at index i: the index after
\* the match and the reference, or next = 0
UrlMatchAt(css, i) ==
    LET p == i + 4 + (IF IsAt(css, i + 4, Quotes) THEN 1 ELSE 0)
        e == RunUntil(css, p + 4, {")"} \cup Quotes)
        c == e + (IF IsAt(css, e, Quotes) THEN 1 ELSE 0)
    IN  IF /\ HasAt(css, i, <<"u", "r", "l", "(">>)
           /\ HasAt(css, p, CidPrefix)
           /\ e > p + 4
           /\ IsAt(css, c, {")"})
        THEN [next |-> c + 1, cidRef |-> SubSeq(css, p, e - 1)]
        ELSE [next |-> 0, cidRef |-> <<>>]

\* a match of /@import\s+['"](cid:[^'"\s;]+)['"]/gi at index i
ImportMatchAt(css, i) ==
    LET w == RunUntil(css, i + 7, NonWhiteSpace(css))
        p == w + 1
        e == RunUntil(css, p + 4, Quotes \cup WhiteSpace \cup {";"})
    IN  IF /\ HasAt(css, i, <<"@", "i", "m", "p", "o", "r", "t">>)
           /\ w > i + 7
           /\ IsAt(css, w, Quotes)
           /\ HasAt(css, p, CidPrefix)
           /\ e > p + 4
           /\ IsAt(css, e, Quotes)
        THEN [next |-> e + 1, cidRef |-> SubSeq(css, p, e - 1)]
        ELSE [next |-> 0, cidRef |-> <<>>]

\* part ? before + toDataUri(part) + "')" : match
CssReplacement(parts, before, cidRef, match) ==
    IF CidMapHas(parts, normalizeCid(cidRef))
    THEN before \o toDataUri(CidMapGet(parts, normalizeCid(cidRef))) \o <<"'", ")">>
    ELSE match

RECURSIVE ReplaceUrls(_, _, _)
\* cssText.replace(/url\(...\)/gi, ...) from index i on
ReplaceUrls(parts, css, i) ==
    IF i > Len(css) THEN <<>>
    ELSE LET found == UrlMatchAt(css, i)
         IN  IF found.next = 0 THEN <<css[i]>> \o ReplaceUrls(parts, css, i + 1)
             ELSE CssReplacement(parts, <<"u", "r", "l", "(", "'">>, found.cidRef,
                                 SubSeq(css, i, found.next - 1))
                  \o ReplaceUrls(parts, css, found.next)

RECURSIVE ReplaceImports(_, _, _)
\* out.replace(/@import\s+.../gi, ...) from index i on
ReplaceImports(parts, css, i) ==
    IF i > Len(css) THEN <<>>
    ELSE LET found == ImportMatchAt(css, i)
         IN  IF found.next = 0 THEN <<css[i]>> \o ReplaceImports(parts, css, i + 1)
             ELSE CssReplacement(parts, <<"@", "i", "m", "p", "o", "r", "t", " ", "u", "r", "l", "(", "'">>, found.cidRef,
                                 SubSeq(css, i, found.next - 1))
                  \o ReplaceImports(parts, css, found.next)

\* replaceCidUrlsInCss(cssText, cidMap)
replaceCidUrlsInCss(parts, cssText) ==
    ReplaceImports(parts, ReplaceUrls(parts, cssText, 1), 1)

\* a first loop that puts a style element in the place of every link it
\* resolves, whatever the type of the part
LinkIsStyleAnyType(parts, el) ==
    LinkGone(el) /\ CidMapHas(parts, normalizeCid(el.value))

\* the first loop: the link is replaced by a style element
LinkIsStyle(parts, el) ==
    /\ LinkGone(el)
    /\ CidMapHas(parts, normalizeCid(el.value))
    /\ CidMapGet(parts, normalizeCid(el.value)).contentType = TextCss

\* the text of the style element put in the place of the link el: the CSS
\* of the part (its bytes are ASCII here, which every decoder reads alike),
\* rewritten in the first loop and again in the loop over the style
\* elements when it still holds "cid:", and serialized without "**"
StyleText(parts, el) ==
    LET part == CidMapGet(parts, normalizeCid(el.value))
        first == replaceCidUrlsInCss(parts, Latin1Decode(part.bytes))
        second == IF Contains(first, CidPrefix) THEN replaceCidUrlsInCss(parts, first)
                  ELSE first
    IN  RemoveStars(second)

\* convertMhtmlToHtml(parts), for the style elements written in the place
\* of links
convertedStyles(parts, hasConv, elems) ==
    LET made == {n \in 1..Len(elems) : LinkIsStyle(parts, elems[n])}
        order == SortedIndexes(elems, made)
    IN  [k \in 1..Len(order) |->
            [origin |-> order[k], text |-> StyleText(parts, elems[order[k]])]]

\* convertMhtmlToHtml(parts), for the elements that carry src, href or poster
convertMhtmlToHtml(parts, hasConv, elems) ==
    LET kept == {n \in 1..Len(elems) :
                    ~LinkGone(elems[n]) /\ ~RemovedLater(hasConv, elems[n])}
        order == SortedIndexes(elems, kept)
    IN  [k \in 1..Len(order) |->
            [origin |-> order[k],
             value |-> RemoveStars(RewrittenValue(parts, elems[order[k]]))]]


\* the number of parts of the file
MaxCidParts == 2

\* the number of elements of the document that carry src, href or poster
MaxElems == 1

\* a style sheet with a quoted reference
CssUrl == <<"p", "{", "q", ":", "u", "r", "l", "(", "'", "c", "i", "d", ":", "b", "'", ")", "}">>

\* a style sheet with a comment, an import and a reference to no part
CssImport ==
    <<"/", "*", "*", " ", "*", "/", "@", "i", "m", "p", "o", "r", "t", " ",
       "\"", "c", "i", "d", ":", "b", "\"", ";", "u", "r", "l", "(", "c",
       "i", "d", ":", "z", ")">>

CidPartSet ==
    {[contentId |-> <<"<", "a", ">">>, contentLocation |-> <<>>, contentType |-> ImagePng,
      bytes |-> <<65>>],
     [contentId |-> <<"<", "a", ">">>, contentLocation |-> <<>>, contentType |-> TextCss,
      bytes |-> <<66>>],
     [contentId |-> <<>>, contentLocation |-> <<"c", "i", "d", ":", "a">>, contentType |-> <<>>,
      bytes |-> <<0, 255>>],
     [contentId |-> <<"<", "b", ">">>, contentLocation |-> <<>>, contentType |-> ImagePng,
      bytes |-> <<67>>],
     [contentId |-> <<"<", "c", ">">>, contentLocation |-> <<>>, contentType |-> TextCss,
      bytes |-> latin1ToBytes(CssUrl)],
     [contentId |-> <<"<", "d", ">">>, contentLocation |-> <<>>, contentType |-> TextCss,
      bytes |-> latin1ToBytes(CssImport)]}

\* attribute values: three content-id references, of which the third names
\* no part, and two addresses, of which the second holds two asterisks
CidA == <<"c", "i", "d", ":", "a">>

CidAngleA == <<"c", "i", "d", ":", "<", "a", ">">>

CidZ == <<"c", "i", "d", ":", "z">>

Address == <<"h", "/", "x">>

AddressStars == <<"h", "/", "*", "*", "x">>

CidC == <<"c", "i", "d", ":", "c">>

CidD == <<"c", "i", "d", ":", "d">>

AttrValues == {CidA, CidAngleA, CidZ, CidC, CidD, Address, AddressStars}

\* the rel attributes of the links
LinkRels ==
    {<<"s", "t", "y", "l", "e", "s", "h", "e", "e", "t">>,
     <<"p", "r", "e", "l", "o", "a", "d">>,
     <<"m", "o", "d", "u", "l", "e", "p", "r", "e", "l", "o", "a", "d">>,
     <<"P", "R", "E", "L", "O", "A", "D", TAB, "p", "r", "e", "f", "e", "t", "c", "h">>}

\* the elements of a document; a link is in the head, the other elements
\* are in the body, inside chat-window-content when the document has one
DocElements(hasConv) ==
    {[tag |-> k[1], attr |-> k[2], rel |-> <<>>, place |-> p, value |-> v] :
        k \in {<<"img", "src">>, <<"a", "href">>, <<"video", "poster">>,
               <<"script", "src">>},
        p \in (IF hasConv THEN {"body", "conv"} ELSE {"body"}),
        v \in AttrValues}
    \cup {[tag |-> "link", attr |-> "href", rel |-> r, place |-> "head", value |-> v] :
            r \in LinkRels, v \in AttrValues}

CidInit ==
    /\ cidParts \in UNION {[1..n -> CidPartSet] : n \in 0..MaxCidParts}
    /\ docHasConv \in BOOLEAN
    /\ docElems \in UNION {[1..n -> DocElements(docHasConv)] : n \in 0..MaxElems}
    /\ outElems = <<>>
    /\ outStyles = <<>>
    /\ cidPc = "doc"
    /\ Idle("cid")

\* convertMhtmlToHtml(parts)
ConvertMhtmlToHtml ==
    /\ cidPc = "doc"
    /\ outElems' = convertMhtmlToHtml(cidParts, docHasConv, docElems)
    /\ outStyles' = convertedStyles(cidParts, docHasConv, docElems)
    /\ cidPc' = "html"
    /\ UNCHANGED <<cidParts, docHasConv, docElems, exceptCid>>

CidNext == ConvertMhtmlToHtml

SpecCid == CidInit /\ [][CidNext]_vars

\* C15: in the HTML written, a src, href or poster attribute whose value
\* began with "cid:" and whose normalized key is in the resource map holds
\* that part's data URI; one whose key is not in the map, and one whose
\* value did not begin with "cid:", holds the value it had
C15_CidRewrite ==
    cidPc = "html" =>
        \A k \in 1..Len(outElems) :
            LET el == docElems[outElems[k].origin]
                key == normalizeCid(el.value)
            IN  IF StartsWith(el.value, CidPrefix) /\ CidMapHas(cidParts, key)
                THEN outElems[k].value = toDataUri(CidMapGet(cidParts, key))
                ELSE outElems[k].value = el.value


(***************************************************************************)
(* Table rendering: glmNodeToMd, tableToMarkdown, tableToMd                *)
(***************************************************************************)
BACKSLASH == "\\"

PIPE == "|"

NBSP == FromCharCode(160)

\* text.replace(/ /g, " ").replace(/\s+/g, " ").trim()
normalizeText(text) ==
    LET spaced == [n \in 1..Len(text) |->
                      IF text[n] = NBSP \/ text[n] \in WhiteSpace THEN SP ELSE text[n]]
    IN  Trim(Select(spaced, {n \in 1..Len(spaced) :
                                ~(spaced[n] = SP /\ n > 1 /\ spaced[n - 1] = SP)}))

\* a cell text written as it is
KeepPipes(text) == text

RECURSIVE EscapePipes(_)
\* text.replace(/\|/g, "\\|")
EscapePipes(text) ==
    IF text = <<>> THEN <<>>
    ELSE (IF Head(text) = PIPE THEN <<BACKSLASH, PIPE>> ELSE <<Head(text)>>)
         \o EscapePipes(Tail(text))

\* the rows pushed: a tr without cells is passed over
TableRowsOf(trs) ==
    LET kept == Select(trs, {n \in 1..Len(trs) : trs[n] # <<>>})
    IN  [k \in 1..Len(kept) |->
            [c \in 1..Len(kept[k]) |-> EscapePipes(normalizeText(kept[k][c]))]]

\* Math.max(...rows.map((r) => r.length))
TableWidth(rows) ==
    CHOOSE w \in {Len(rows[k]) : k \in 1..Len(rows)} :
        \A k \in 1..Len(rows) : Len(rows[k]) <= w

\* a row filled with empty cells up to the width
PadRow(row, width) == row \o [n \in 1..(width - Len(row)) |-> <<>>]

\* `| ${cells.join(" | ")} |`
TableLine(cells) == <<PIPE, SP>> \o Join(cells, <<SP, PIPE, SP>>) \o <<SP, PIPE>>

Dashes == <<"-", "-", "-">>

\* the lines of the table: the first row, the separator, the other rows
TableLines(rows) ==
    LET width == TableWidth(rows)
    IN  <<TableLine(PadRow(rows[1], width)),
          TableLine([n \in 1..width |-> Dashes])>>
        \o [k \in 1..(Len(rows) - 1) |-> TableLine(PadRow(rows[k + 1], width))]

\* the table branch of glmNodeToMd, tableToMarkdown and tableToMd: the last
\* of the three ends its text with the last line
RenderTable(fn, trs) ==
    LET rows == TableRowsOf(trs)
    IN  IF rows = <<>> THEN <<>>
        ELSE Join(TableLines(rows), <<LF>>)
             \o (IF fn = "tableToMd" THEN <<>> ELSE <<LF, LF>>)

\* the number of tr elements of a table and of cells of a tr
MaxRows == 2

MaxCells == 2

\* cell texts: a letter, a text with a line break and a pipe, and a pipe
\* that has a backslash before it
CellTexts ==
    {<<"a">>, <<SP, "x", LF, PIPE, NBSP>>, <<BACKSLASH, PIPE>>}

TableTrs == UNION {[1..n -> CellTexts] : n \in 0..MaxCells}

TableInit ==
    /\ tableFn \in {"glmNodeToMd", "tableToMarkdown", "tableToMd"}
    /\ tableRows \in UNION {[1..n -> TableTrs] : n \in 0..MaxRows}
    /\ tableOut = <<>>
    /\ tablePc = "table"
    /\ Idle("table")

\* the renderer called on a table element
RenderTableNode ==
    /\ tablePc = "table"
    /\ tableOut' = RenderTable(tableFn, tableRows)
    /\ tablePc' = "rendered"
    /\ UNCHANGED <<tableFn, tableRows, exceptTable>>

TableNext == RenderTableNode

SpecTable == TableInit /\ [][TableNext]_vars


\* the lines of the rendered table
RenderedLines == SplitLf(StripTrailingLf(tableOut))

\* the number of pipes of a line that delimit cells: a pipe that has a
\* backslash directly before it is part of a cell's text
CellBreaks(line) ==
    Cardinality({n \in 1..Len(line) :
                    line[n] = PIPE /\ ~(n > 1 /\ line[n - 1] = BACKSLASH)})

\* the number of cells of a line that opens and closes with a pipe
CellCount(line) == CellBreaks(line) - 1

\* the tr elements that have a cell
RowsWithCells == {n \in 1..Len(tableRows) : tableRows[n] # <<>>}

Utf8Labels ==
    {<<"u", "t", "f", "-", "8">>,
     <<"u", "t", "f", "8">>,
     <<"u", "n", "i", "c", "o", "d", "e", "-", "1", "-", "1", "-", "u", "t", "f", "-", "8">>}

EucKrLabels ==
    {<<"e", "u", "c", "-", "k", "r">>,
     <<"c", "s", "e", "u", "c", "k", "r">>,
     <<"k", "o", "r", "e", "a", "n">>,
     <<"k", "s", "_", "c", "_", "5", "6", "0", "1", "-", "1", "9", "8", "7">>,
     <<"k", "s", "c", "5", "6", "0", "1">>,
     <<"w", "i", "n", "d", "o", "w", "s", "-", "9", "4", "9">>}

Windows1252Labels ==
    {<<"w", "i", "n", "d", "o", "w", "s", "-", "1", "2", "5", "2">>,
     <<"l", "a", "t", "i", "n", "1">>,
     <<"i", "s", "o", "-", "8", "8", "5", "9", "-", "1">>,
     <<"c", "p", "1", "2", "5", "2">>,
     <<"a", "s", "c", "i", "i">>,
     <<"u", "s", "-", "a", "s", "c", "i", "i">>}

\* the encoding that new TextDecoder(label) gets, "none" when the
\* constructor throws a RangeError: the label is trimmed and lower-cased
EncodingOf(label) ==
    LET name == ToLowerCase(Trim(label))
    IN  CASE name \in Utf8Labels -> "utf-8"
          [] name \in EucKrLabels -> "euc-kr"
          [] name \in Windows1252Labels -> "windows-1252"
          [] OTHER -> "none"

\* the character of a code point
CodePointChar(cp) == IF cp \in 0..255 THEN FromCharCode(cp) ELSE "u" \o ToString(cp)

\* U+FFFD
Replacement == CodePointChar(65533)

\* the first continuation byte that may follow a lead byte
Utf8Lower(lead) == CASE lead = 224 -> 160 [] lead = 240 -> 144 [] OTHER -> 128

Utf8Upper(lead) == CASE lead = 237 -> 159 [] lead = 244 -> 143 [] OTHER -> 191

RECURSIVE Utf8Scan(_, _, _, _, _, _, _)
\* the UTF-8 decoder from the 1-based index i on: cp is the code point
\* being read, needed the bytes it still lacks, lower..upper the range of
\* the next continuation byte. With error |-> TRUE a malformed sequence
\* ends the decoding, otherwise it becomes U+FFFD.
Utf8Scan(bytes, i, cp, needed, lower, upper, fatal) ==
    IF i > Len(bytes)
    THEN IF needed = 0 THEN [error |-> FALSE, text |-> <<>>]
         ELSE [error |-> fatal, text |-> <<Replacement>>]
    ELSE LET b == bytes[i]
             bad(rest) == [error |-> fatal \/ rest.error,
                           text |-> <<Replacement>> \o rest.text]
         IN  IF needed = 0
             THEN CASE b \in 0..127 ->
                         LET rest == Utf8Scan(bytes, i + 1, 0, 0, 128, 191, fatal)
                         IN  [error |-> rest.error,
                              text |-> <<CodePointChar(b)>> \o rest.text]
                    [] b \in 194..223 ->
                         Utf8Scan(bytes, i + 1, b % 32, 1, 128, 191, fatal)
                    [] b \in 224..239 ->
                         Utf8Scan(bytes, i + 1, b % 16, 2, Utf8Lower(b), Utf8Upper(b), fatal)
                    [] b \in 240..244 ->
                         Utf8Scan(bytes, i + 1, b % 8, 3, Utf8Lower(b), Utf8Upper(b), fatal)
                    [] OTHER -> bad(Utf8Scan(bytes, i + 1, 0, 0, 128, 191, fatal))
             ELSE IF b \notin lower..upper
                  THEN bad(Utf8Scan(bytes, i, 0, 0, 128, 191, fatal))
                  ELSE IF needed = 1
                       THEN LET rest == Utf8Scan(bytes, i + 1, 0, 0, 128, 191, fatal)
                            IN  [error |-> rest.error,
                                 text |-> <<CodePointChar(cp * 64 + (b % 64))>> \o rest.text]
                       ELSE Utf8Scan(bytes, i + 1, cp * 64 + (b % 64), needed - 1,
                                     128, 191, fatal)

RECURSIVE EucKrScan(_, _, _)
\* the EUC-KR decoder: a lead byte 0x81..0xFE and a byte 0x41..0xFE make the
\* character at the pointer (lead - 0x81) * 190 + (byte - 0x41) of the
\* index, written "k" and the pointer
EucKrScan(bytes, i, fatal) ==
    IF i > Len(bytes) THEN [error |-> FALSE, text |-> <<>>]
    ELSE LET b == bytes[i]
             bad(rest) == [error |-> fatal \/ rest.error,
                           text |-> <<Replacement>> \o rest.text]
         IN  IF b \in 0..127
             THEN LET rest == EucKrScan(bytes, i + 1, fatal)
                  IN  [error |-> rest.error, text |-> <<CodePointChar(b)>> \o rest.text]
             ELSE IF b \in 129..254
                  THEN IF i = Len(bytes) THEN bad([error |-> FALSE, text |-> <<>>])
                       ELSE IF bytes[i + 1] \in 65..254
                       THEN LET rest == EucKrScan(bytes, i + 2, fatal)
                            IN  [error |-> rest.error,
                                 text |-> <<"k" \o ToString((b - 129) * 190 + (bytes[i + 1] - 65))>>
                                          \o rest.text]
                       ELSE IF bytes[i + 1] \in 0..127
                       THEN bad(EucKrScan(bytes, i + 1, fatal))
                       ELSE bad(EucKrScan(bytes, i + 2, fatal))
                  ELSE bad(EucKrScan(bytes, i + 1, fatal))

\* the windows-1252 decoder, for bytes outside 0x80..0x9F
Windows1252Decode(bytes) == [n \in 1..Len(bytes) |-> CodePointChar(bytes[n])]

\* new TextDecoder(label, { fatal }).decode(bytes): <<>> when the constructor
\* or the decoding throws, <<text>> otherwise
TextDecoderDecode(label, fatal, bytes) ==
    LET enc == EncodingOf(label)
        scanned == CASE enc = "utf-8" -> Utf8Scan(bytes, 1, 0, 0, 128, 191, fatal)
                     [] enc = "euc-kr" -> EucKrScan(bytes, 1, fatal)
                     [] OTHER -> [error |-> FALSE, text |-> Windows1252Decode(bytes)]
    IN  IF enc = "none" \/ scanned.error THEN <<>> ELSE <<scanned.text>>

\* the charsets that decodeBytes tries after the hint
FallbackCharsets ==
    <<<<"u", "t", "f", "-", "8">>,
      <<"c", "p", "9", "4", "9">>,
      <<"e", "u", "c", "-", "k", "r">>,
      <<"w", "i", "n", "d", "o", "w", "s", "-", "1", "2", "5", "2">>,
      <<"l", "a", "t", "i", "n", "1">>>>

RECURSIVE FirstDecoded(_, _, _)
\* the loop over tries from the k-th on: the first decoding that does not
\* throw, and the non-fatal UTF-8 decoding when every one throws
FirstDecoded(tries, k, bytes) ==
    IF k > Len(tries) THEN TextDecoderDecode(FallbackCharsets[1], FALSE, bytes)
    ELSE IF TextDecoderDecode(tries[k], FALSE, bytes) # <<>>
         THEN TextDecoderDecode(tries[k], FALSE, bytes)
         ELSE FirstDecoded(tries, k + 1, bytes)

\* the list of charsets that decodeBytes builds: the hint when it is a
\* non-empty string, then the fallbacks that are not in the list
TriesOf(charsetHint) ==
    LET hinted == IF charsetHint # <<>> /\ charsetHint[1] # <<>>
                  THEN <<charsetHint[1]>> ELSE <<>>
    IN  hinted \o Select(FallbackCharsets,
                         {n \in 1..Len(FallbackCharsets) :
                             hinted = <<>> \/ FallbackCharsets[n] # hinted[1]})

\* a decodeBytes that does not look at the hint
decodeBytesNoHint(bytes, charsetHint) == FirstDecoded(FallbackCharsets, 1, bytes)

\* decodeBytes(bytes, charsetHint)
decodeBytes(bytes, charsetHint) == FirstDecoded(TriesOf(charsetHint), 1, bytes)


\* the number of bytes handed to decodeBytes
MaxDecBytes == 3

\* "A", and three bytes that are text in EUC-KR and in windows-1252, the
\* last of them the lead byte of a two-byte sequence of UTF-8
DecByteValues == {65, 161, 176, 195}

\* charset hints: null, the empty string, labels and names that are none
CharsetHints ==
    {<<>>,
     <<<<>>>>,
     <<<<"u", "t", "f", "-", "8">>>>,
     <<<<"E", "U", "C", "-", "K", "R">>>>,
     <<<<"c", "p", "9", "4", "9">>>>,
     <<<<"x", "-", "u", "n", "k", "n", "o", "w", "n">>>>,
     <<<<"w", "i", "n", "d", "o", "w", "s", "-", "1", "2", "5", "2">>>>}

DecInit ==
    /\ decBytes \in UNION {[1..n -> DecByteValues] : n \in 0..MaxDecBytes}
    /\ decHint \in CharsetHints
    /\ decOut = <<>>
    /\ decPc = "bytes"
    /\ Idle("dec")

\* decodeBytes(bytes, charsetHint)
DecodeBytes ==
    /\ decPc = "bytes"
    /\ decOut' = decodeBytes(decBytes, decHint)
    /\ decPc' = "decoded"
    /\ UNCHANGED <<decBytes, decHint, exceptDec>>

DecNext == DecodeBytes

SpecDec == DecInit /\ [][DecNext]_vars

\* the order of decoders that the claim states: the hint, when there is
\* one, and the five charsets
StatedOrder ==
    (IF decHint # <<>> /\ decHint[1] # <<>> THEN <<decHint[1]>> ELSE <<>>)
        \o FallbackCharsets

\* C18: decodeBytes returns a string: the result of the first decoder of
\* the stated order that does not throw, and the non-strict UTF-8 decoding
\* when every one throws
C18_FirstDecoderThatDoesNotThrow ==
    decPc = "decoded" =>
        LET ok == {k \in 1..Len(StatedOrder) :
                      TextDecoderDecode(StatedOrder[k], FALSE, decBytes) # <<>>}
        IN  /\ decOut # <<>>
            /\ decOut = IF ok = {}
                        THEN TextDecoderDecode(FallbackCharsets[1], FALSE, decBytes)
                        ELSE TextDecoderDecode(StatedOrder[Least(ok)], FALSE, decBytes)

\* the hint names no encoding, so that its decoder throws, and the bytes are
\* decoded as UTF-8
C18_Witness ==
    /\ decPc = "decoded"
    /\ decHint = <<<<"c", "p", "9", "4", "9">>>>
    /\ decBytes = <<65, 195, 176>>
    /\ decOut = <<<<"A", CodePointChar(240)>>>>

\* the hint names EUC-KR, and the bytes are decoded as EUC-KR
C18_WitnessHint ==
    /\ decPc = "decoded"
    /\ decHint = <<<<"E", "U", "C", "-", "K", "R">>>>
    /\ decBytes = <<176, 161>>
    /\ decOut = <<<<"k9026">>>>


(***************************************************************************)
(* The browser runners: converter-suite.js and the page of web_runner.js   *)
(***************************************************************************)
\* /[\\/:*?"<>|]/
ForbiddenChars == {BACKSLASH, "/", ":", "*", "?", "\"", "<", ">", PIPE}

\* the name check of getOutputName, and of runConvert in the page of
\* web_runner.js: the error thrown, "none" when the name is returned
CheckOutputName(value) ==
    LET name == Trim(value)
    IN  [error |-> CASE name = <<>> -> "need-name"
                     [] \E n \in 1..Len(name) : name[n] \in ForbiddenChars -> "bad-name"
                     [] OTHER -> "none",
         name |-> name]

\* a name check that finds nothing wrong with any name
CheckNothing(value) == [error |-> "none", name |-> Trim(value)]

\* getOutputName()
getOutputName(value) == CheckOutputName(value)

\* inputName.replace(/\.[^.]+$/, "") + ext
makeOutputName(inputName, ext) ==
    LET dots == {n \in 1..(Len(inputName) - 1) :
                    /\ inputName[n] = "."
                    /\ \A k \in (n + 1)..Len(inputName) : inputName[k] # "."}
    IN  (IF dots = {} THEN inputName
         ELSE Slice(inputName, 0, (CHOOSE n \in dots : TRUE) - 1)) \o ext

DefaultExt == <<".", "m", "d">>

\* setStatus(text, cls), the text named by what it says
Status(text, cls) == [text |-> text, cls |-> cls]

\* the number of calls that wait at an await, and of files written
MaxPending == 2

MaxWritten == 1

\* the files the user can pick: one that converts and one whose conversion
\* throws
InputFiles ==
    {[name |-> <<"a", ".", "m", "h", "t", "m", "l">>, converts |-> TRUE],
     [name |-> <<"b", ".", "m", "h", "t">>, converts |-> FALSE]}

\* the names the user can type
OutputNames ==
    {<<>>,
     <<" ", " ">>,
     <<" ", "a", " ">>,
     <<"a", "\\">>,
     <<"a", "/">>,
     <<"a", ":">>,
     <<"a", "*">>,
     <<"a", "?">>,
     <<"a", "\"">>,
     <<"a", "<">>,
     <<"a", ">">>,
     <<"a", "|">>}

\* two of the nine entries of CONVERTERS: id and defaultExt
CONVERTERS ==
    <<[id |-> "mhtml2html", defaultExt |-> <<".", "h", "t", "m", "l">>],
      [id |-> "mhtml_to_md_general", defaultExt |-> <<".", "m", "d">>]>>

\* selectedConverter(): the entry of the id, or else the first entry
selectedConverter(id) ==
    IF \E n \in 1..Len(CONVERTERS) : CONVERTERS[n].id = id
    THEN CONVERTERS[CHOOSE n \in 1..Len(CONVERTERS) : CONVERTERS[n].id = id]
    ELSE CONVERTERS[1]

\* guessOutputName() for an input file and the converter selected
guessOutputName(file, id) == makeOutputName(file.name, selectedConverter(id).defaultExt)

RunInit ==
    /\ page \in {"suite", "web"}
    /\ inputFile = <<>>
    /\ outputDir = FALSE
    /\ outputName = <<>>
    /\ outputBlob = "null"
    /\ status = Status("", "muted")
    /\ runs = <<>>
    /\ saves = <<>>
    /\ written = <<>>
    /\ selectedConverterId = (IF page = "suite" THEN CONVERTERS[1].id ELSE "none")
    /\ outputOf = <<>>
    /\ Idle("run")

Pending == Len(runs) + Len(saves)

\* s without its k-th element
Without(s, k) == SubSeq(s, 1, k - 1) \o SubSeq(s, k + 1, Len(s))

\* the user types an output name
EditOutputName ==
    /\ \E name \in OutputNames : outputName' = name
    /\ UNCHANGED <<page, inputFile, outputDir, outputBlob, status, runs, saves,
                   written, selectedConverterId, outputOf, exceptRun>>

\* pickConverter(): the file picked is the script of a converter of the
\* list, or some other file
PickConverter ==
    /\ page = "suite"
    /\ \/ \E n \in 1..Len(CONVERTERS) :
            /\ selectedConverterId' = CONVERTERS[n].id
            /\ outputName' = IF inputFile # <<>>
                             THEN guessOutputName(inputFile[1], CONVERTERS[n].id)
                             ELSE outputName
            /\ status' = Status("converter-picked", "ok")
       \/ /\ status' = Status("bad-converter", "err")
          /\ UNCHANGED <<selectedConverterId, outputName>>
    /\ UNCHANGED <<page, inputFile, outputDir, outputBlob, runs, saves, written,
                   outputOf, exceptRun>>

\* pickFile(): the file dialog returns a file, or no file where the page
\* falls back on an input element
PickFile ==
    /\ page = "suite"
    /\ \/ \E file \in InputFiles :
            /\ inputFile' = <<file>>
            /\ outputName' = guessOutputName(file, selectedConverterId)
            /\ status' = Status("picked", "muted")
       \/ /\ inputFile' = <<>>
          /\ UNCHANGED <<outputName, status>>
    /\ UNCHANGED <<page, outputDir, outputBlob, runs, saves, written,
                   selectedConverterId, outputOf, exceptRun>>

\* an error handler that leaves the output as it is
KeepOutputBlob(blob) == blob

\* the catch block of runConvert: outputBlob = null
CatchOutputBlob(blob) == "null"

\* runConvert() up to its await: without an input file the catch block
\* runs at once
RunConvertStart ==
    /\ page = "suite"
    /\ IF inputFile = <<>>
       THEN /\ outputBlob' = CatchOutputBlob(outputBlob)
            /\ status' = Status("need-input", "err")
            /\ UNCHANGED runs
       ELSE /\ Pending < MaxPending
            /\ runs' = Append(runs, [name |-> inputFile[1].name,
                                     converts |-> inputFile[1].converts,
                                     cv |-> selectedConverter(selectedConverterId).id])
            /\ status' = Status("converting", "muted")
            /\ UNCHANGED outputBlob
    /\ outputOf' = IF outputBlob' = "null" THEN <<>> ELSE outputOf
    /\ UNCHANGED <<page, inputFile, outputDir, outputName, saves, written,
                   selectedConverterId, exceptRun>>

\* runConvert() from its await on: the bytes are those of the file the call
\* began with and the converter is the one selected then; reading them may fail, inputFile.name needs a file, and
\* cv.run may throw
RunConvertEnd ==
    /\ page = "suite"
    /\ \E k \in 1..Len(runs), readable \in BOOLEAN :
        /\ runs' = Without(runs, k)
        /\ IF readable /\ inputFile # <<>> /\ runs[k].converts
           THEN /\ outputBlob' = "blob"
                /\ outputOf' = <<[file |-> runs[k].name, cv |-> runs[k].cv]>>
                /\ status' = Status("done", "ok")
           ELSE /\ outputBlob' = CatchOutputBlob(outputBlob)
                /\ outputOf' = IF outputBlob' = "null" THEN <<>> ELSE outputOf
                /\ status' = Status("convert-error", "err")
    /\ UNCHANGED <<page, inputFile, outputDir, outputName, saves, written,
                   selectedConverterId, exceptRun>>

\* saveWithPicker() up to the save dialog
SaveWithPickerStart ==
    /\ page = "suite"
    /\ \E supported \in BOOLEAN :
        LET checked == getOutputName(outputName)
        IN  IF outputBlob = "null"
            THEN status' = Status("need-convert", "err") /\ UNCHANGED saves
            ELSE IF checked.error # "none"
            THEN status' = Status(checked.error, "err") /\ UNCHANGED saves
            ELSE IF ~supported
            THEN status' = Status("no-picker", "err") /\ UNCHANGED saves
            ELSE /\ Pending < MaxPending
                 /\ saves' = Append(saves, checked.name)
                 /\ UNCHANGED status
    /\ UNCHANGED <<page, inputFile, outputDir, outputName, outputBlob, runs,
                   written, selectedConverterId, outputOf, exceptRun>>

\* saveWithPicker() from the save dialog on: the dialog may be dismissed,
\* and writable.write(outputBlob) rejects a null
SaveWithPickerEnd ==
    /\ \E k \in 1..Len(saves), picked \in BOOLEAN :
        /\ saves' = Without(saves, k)
        /\ IF picked /\ outputBlob # "null"
           THEN /\ Len(written) < MaxWritten
                /\ written' = Append(written, [by |-> "save", name |-> saves[k]])
                /\ status' = Status("saved", "ok")
           ELSE /\ status' = Status("save-error", "err")
                /\ UNCHANGED written
    /\ UNCHANGED <<page, inputFile, outputDir, outputName, outputBlob, runs,
                   selectedConverterId, outputOf, exceptRun>>

\* downloadOutput()
DownloadOutput ==
    /\ page = "suite"
    /\ LET checked == getOutputName(outputName)
       IN  IF outputBlob = "null"
           THEN status' = Status("need-convert", "err") /\ UNCHANGED written
           ELSE IF checked.error # "none"
           THEN status' = Status(checked.error, "err") /\ UNCHANGED written
           ELSE /\ Len(written) < MaxWritten
                /\ written' = Append(written, [by |-> "download", name |-> checked.name])
                /\ status' = Status("download-started", "ok")
    /\ UNCHANGED <<page, inputFile, outputDir, outputName, outputBlob, runs, saves,
                   selectedConverterId, outputOf, exceptRun>>


\* pickInputFile() of the web page: the name field is filled when it is empty
WebPickInputFile ==
    /\ page = "web"
    /\ \E file \in InputFiles :
        /\ inputFile' = <<file>>
        /\ outputName' = IF outputName = <<>>
                         THEN makeOutputName(file.name, DefaultExt) ELSE outputName
    /\ UNCHANGED <<page, outputDir, outputBlob, status, runs, saves, written,
                   selectedConverterId, outputOf, exceptRun>>

\* pickOutputDir() of the web page
WebPickOutputDir ==
    /\ page = "web"
    /\ outputDir' = TRUE
    /\ UNCHANGED <<page, inputFile, outputName, outputBlob, status, runs, saves,
                   written, selectedConverterId, outputOf, exceptRun>>

\* runConvert() of the web page up to its first await
WebRunConvertStart ==
    /\ page = "web"
    /\ \E script \in BOOLEAN :
        LET checked == CheckOutputName(outputName)
        IN  IF ~script THEN status' = Status("need-script", "err") /\ UNCHANGED runs
            ELSE IF inputFile = <<>>
            THEN status' = Status("need-input", "err") /\ UNCHANGED runs
            ELSE IF ~outputDir
            THEN status' = Status("need-folder", "err") /\ UNCHANGED runs
            ELSE IF checked.error # "none"
            THEN status' = Status(checked.error, "err") /\ UNCHANGED runs
            ELSE /\ Pending < MaxPending
                 /\ runs' = Append(runs, [name |-> checked.name,
                                          converts |-> inputFile[1].converts])
                 /\ status' = Status("converting", "muted")
    /\ UNCHANGED <<page, inputFile, outputDir, outputName, outputBlob, saves,
                   written, selectedConverterId, outputOf, exceptRun>>

\* runConvert() of the web page from the answer of the server on: the
\* output is written under the name the call began with
WebRunConvertEnd ==
    /\ page = "web"
    /\ \E k \in 1..Len(runs) :
        /\ runs' = Without(runs, k)
        /\ IF runs[k].converts
           THEN /\ Len(written) < MaxWritten
                /\ written' = Append(written, [by |-> "web", name |-> runs[k].name])
                /\ status' = Status("done", "ok")
           ELSE /\ status' = Status("convert-error", "err")
                /\ UNCHANGED written
    /\ UNCHANGED <<page, inputFile, outputDir, outputName, outputBlob, saves,
                   selectedConverterId, outputOf, exceptRun>>

\* the events of the two pages, the converter of the suite page staying the
\* one selected when the page loads
RunNext ==
    \/ EditOutputName
    \/ PickFile
    \/ RunConvertStart
    \/ RunConvertEnd
    \/ SaveWithPickerStart
    \/ SaveWithPickerEnd
    \/ DownloadOutput
    \/ WebPickInputFile
    \/ WebPickOutputDir
    \/ WebRunConvertStart
    \/ WebRunConvertEnd

SpecRunner == RunInit /\ [][RunNext]_vars

\* the suite page with its converter picker, the output name being the one
\* the page proposes
OutputInit == RunInit /\ page = "suite"

OutputNext ==
    \/ PickConverter
    \/ PickFile
    \/ RunConvertStart
    \/ RunConvertEnd
    \/ SaveWithPickerStart
    \/ SaveWithPickerEnd
    \/ DownloadOutput

SpecOutput == OutputInit /\ [][OutputNext]_vars


\* the last thing the page did was to end a runConvert in an error
RunEndedInError ==
    /\ page = "suite"
    /\ status.cls = "err"
    /\ status.text \in {"need-input", "convert-error"}

\* a step of the suite page when there is no output: nothing is written, a
\* download or save attempt shows an error and waits for no dialog, and
\* the output comes back only where a runConvert ends in success
StepWithoutOutput ==
    (page = "suite" /\ outputBlob = "null") =>
        /\ written' = written
        /\ (DownloadOutput \/ SaveWithPickerStart) =>
                (status'.cls = "err" /\ saves' = saves)
        /\ outputBlob' # "null" =>
                (status' = Status("done", "ok") /\ Len(runs') = Len(runs) - 1)

\* C19: when runConvert has ended in an error outputBlob is null, and
\* from then on every download or save attempt shows an error and writes
\* nothing, until a runConvert ends in success
C19_NoOutputAfterFailure == [](RunEndedInError => outputBlob = "null") /\ [][StepWithoutOutput]_vars

\* a conversion succeeded and its output was downloaded, a later one
\* failed, and the download tried after it was refused
C19_Witness ==
    /\ page = "suite"
    /\ written # <<>>
    /\ outputBlob = "null"
    /\ inputFile # <<>>
    /\ ~inputFile[1].converts
    /\ status = Status("need-convert", "err")

\* a name that is empty once trimmed, or holds one of \ / : * ? " < > |
NameRejected(name) ==
    \/ Trim(name) = <<>>
    \/ \E n \in 1..Len(name) : name[n] \in {"\\", "/", ":", "*", "?", "\"", "<", ">", "|"}

\* a step that checks a rejected name: an error is shown, nothing is
\* written or downloaded, and no call is left waiting to write
StepWithRejectedName ==
    (/\ NameRejected(outputName)
     /\ DownloadOutput \/ SaveWithPickerStart \/ WebRunConvertStart) =>
        /\ status'.cls = "err"
        /\ written' = written
        /\ saves' = saves
        /\ runs' = runs

\* C20: a rejected output name leads to an error before anything is written
\* or downloaded, and every file written, download started and call waiting
\* to write has a name that is not rejected
C20_NameChecked ==
    /\ [](/\ \A k \in 1..Len(written) : ~NameRejected(written[k].name)
          /\ \A k \in 1..Len(saves) : ~NameRejected(saves[k])
          /\ page = "web" => \A k \in 1..Len(runs) : ~NameRejected(runs[k].name))
    /\ [][StepWithRejectedName]_vars

\* there is an output, and the download was refused for the name "a|"
C20_Witness ==
    /\ page = "suite"
    /\ outputBlob = "blob"
    /\ outputName = <<"a", "|">>
    /\ status = Status("bad-name", "err")
    /\ written = <<>>


(***************************************************************************)
(* C23: the role-attribute fallback                                        *)
(***************************************************************************)
\* the document holds a user-query or a message-content element: an
\* opening tag with its closing tag after it
MarkerElementFound ==
    \E a, c \in 1..Len(html) :
        /\ a < c
        /\ \/ html[a] = "user-query" /\ html[c] = "/user-query"
           \/ html[a] = "message-content" /\ html[c] = "/message-content"

\* the character indexes of the role markers, in increasing order
RoleMarkerStarts ==
    LET at == SortedIndexes(html, {n \in 1..Len(html) :
                                      html[n] \in {"role-user", "role-assistant"}})
    IN  [i \in 1..Len(at) |-> Offset(html, at[i])]

\* a fragment that starts at its own position is one of the fallback
FromFallback(item) == item.from = item.pos

\* C23: a fragment of the role-attribute fallback is returned only for a
\* document without a user-query and without a message-content element,
\* and for such a document fragment i starts at role marker i and ends
\* where marker i + 1 starts, the last one at the end of the document
C23_FallbackTiles ==
    segPc = "items" =>
        /\ (\E k \in 1..Len(blockItems) : FromFallback(blockItems[k]))
                => ~MarkerElementFound
        /\ ~MarkerElementFound =>
            /\ Len(blockItems) = Len(RoleMarkerStarts)
            /\ \A i \in 1..Len(blockItems) :
                /\ blockItems[i].from = RoleMarkerStarts[i]
                /\ blockItems[i].to = IF i < Len(blockItems)
                                      THEN RoleMarkerStarts[i + 1]
                                      ELSE HtmlLength(html)

\* two role markers with text before, between and after them, and an
\* opening user-query tag that is never closed
C23_Witness ==
    /\ segPc = "items"
    /\ html = <<"user-query", "role-user", "x", "role-assistant">>
    /\ Len(blockItems) = 2
    /\ blockItems[1].from = 12
    /\ blockItems[1].to = 50
    /\ blockItems[2].to = 92

(* ------------------------------------------------------------------ *)
(* C28: the fragments of the balanced-tag scan do not overlap           *)
(* ------------------------------------------------------------------ *)

\* the opening tag of a marker container lies inside the fragment b
MarkerInside(h, b) ==
    \E n \in 1..Len(h) :
        /\ h[n] \in {"div-user", "div-model"}
        /\ Offset(h, n) >= b.from
        /\ Offset(h, n) < b.to

\* the fragment b is the content of a container whose opening tag lies
\* inside the fragment a
MarkerOpensIn(h, b, a) ==
    \E n \in 1..Len(h) :
        /\ h[n] \in {"div-user", "div-model"}
        /\ Offset(h, n) >= a.from
        /\ Offset(h, n) < a.to
        /\ b.from = Offset(h, n) + Width(h[n])

\* C28: the fragments returned by the balanced-tag scan are pairwise
\* non-overlapping: each fragment starts at or after the end of the previous
\* one, so the content of a marker container nested inside an extracted
\* container is never returned as a fragment of its own.
C28_NoOverlap ==
    segPc = "blocks" =>
        /\ \A b \in 1..Len(grokBlocks) : grokBlocks[b].from <= grokBlocks[b].to
        /\ \A a, b \in 1..Len(grokBlocks) :
               a < b => grokBlocks[a].to <= grokBlocks[b].from
        /\ \A a, b \in 1..Len(grokBlocks) :
               a # b => ~MarkerOpensIn(html, grokBlocks[b], grokBlocks[a])

\* a marker container nested in a marker container, followed by a third
\* one: the scan returns the outer and the third container only
C28_Witness ==
    /\ segPc = "blocks"
    /\ html = <<"div-user", "div-model", "/div", "/div", "div-model">>
    /\ Len(grokBlocks) = 2
    /\ MarkerInside(html, grokBlocks[1])
    /\ grokBlocks[1].to = 80
    /\ grokBlocks[2].from = 118

(* ------------------------------------------------------------------ *)
(* The balanced-tag scan, one loop iteration at a time                  *)
(* ------------------------------------------------------------------ *)

\* a cursor that stays on the opening tag it found
StayAtOpen(nOpen) == nOpen

\* k = nOpen + 4
AfterOpen(nOpen) == nOpen + 4

\* k = nClose + 6
AfterClose(nClose) == nClose + 6

\* pos = i + 1
SkipNeedle(i) == i + 1

\* one iteration of while (depth > 0): the new depth and cursor, and
\* whether the iteration left the loop by its break
DepthStep(h, depth, k) ==
    LET nOpen == IndexOf(h, "divOpen", k)
        nClose == IndexOf(h, "divClose", k)
    IN  IF nClose = -1 THEN [depth |-> depth, k |-> HtmlLength(h), broke |-> TRUE]
        ELSE IF nOpen # -1 /\ nOpen < nClose
             THEN [depth |-> depth + 1, k |-> AfterOpen(nOpen), broke |-> FALSE]
             ELSE [depth |-> depth - 1, k |-> AfterClose(nClose), broke |-> FALSE]

MaxScanTokens == 4

ScanDocs == UNION {[1..n -> DivTokens] : n \in 0..MaxScanTokens}

ScanInit ==
    /\ scanHtml \in ScanDocs
    /\ scanPos = 0
    /\ scanBlocks = <<>>
    /\ scanStart = 0
    /\ scanRole = "model"
    /\ scanDepth = 0
    /\ scanK = 0
    /\ scanPc = "outer"
    /\ Idle("scan")

\* the outer loop found no needle, or no end of the class attribute
ScanBreak ==
    /\ scanPc = "outer"
    /\ LET i == IndexOf(scanHtml, "needle", scanPos)
       IN  i = -1 \/ IndexOf(scanHtml, "quoteGt", i) = -1
    /\ scanPc' = "done"
    /\ UNCHANGED <<scanHtml, scanPos, scanBlocks, scanStart, scanRole, scanDepth, scanK,
                   exceptScan>>

\* the class attribute lacks the marker token: continue at i + 1
ScanSkip ==
    /\ scanPc = "outer"
    /\ LET i == IndexOf(scanHtml, "needle", scanPos)
           j == IndexOf(scanHtml, "quoteGt", i)
       IN  /\ i # -1
           /\ j # -1
           /\ ~ClassAttrIncludes(scanHtml, i, j, "r-imh66m")
           /\ scanPos' = SkipNeedle(i)
    /\ UNCHANGED <<scanHtml, scanBlocks, scanStart, scanRole, scanDepth, scanK, scanPc,
                   exceptScan>>

\* a marker container: enter the depth loop at the end of its opening tag
ScanEnter ==
    /\ scanPc = "outer"
    /\ LET i == IndexOf(scanHtml, "needle", scanPos)
           j == IndexOf(scanHtml, "quoteGt", i)
       IN  /\ i # -1
           /\ j # -1
           /\ ClassAttrIncludes(scanHtml, i, j, "r-imh66m")
           /\ scanStart' = j + 2
           /\ scanK' = j + 2
           /\ scanRole' = IF ClassAttrIncludes(scanHtml, i, j, "r-1kt6imw")
                          THEN "user" ELSE "model"
    /\ scanDepth' = 1
    /\ scanPc' = "inner"
    /\ UNCHANGED <<scanHtml, scanPos, scanBlocks, exceptScan>>

\* one iteration of the depth loop that stays in the loop
ScanDepthStep ==
    /\ scanPc = "inner"
    /\ LET step == DepthStep(scanHtml, scanDepth, scanK)
       IN  /\ ~step.broke
           /\ step.depth > 0
           /\ scanDepth' = step.depth
           /\ scanK' = step.k
    /\ UNCHANGED <<scanHtml, scanPos, scanBlocks, scanStart, scanRole, scanPc, exceptScan>>

\* the iteration that leaves the depth loop, and the rest of the outer
\* iteration: the fragment is pushed and pos = k
ScanPush ==
    /\ scanPc = "inner"
    /\ LET step == DepthStep(scanHtml, scanDepth, scanK)
           fragment == IF step.depth = 0
                       THEN [from |-> scanStart, to |-> step.k - 6]
                       ELSE [from |-> scanStart, to |-> step.k]
       IN  /\ step.broke \/ step.depth <= 0
           /\ scanDepth' = step.depth
           /\ scanK' = step.k
           /\ scanBlocks' = Append(scanBlocks, [role |-> scanRole, from |-> fragment.from,
                                                to |-> fragment.to])
           /\ scanPos' = step.k
    /\ scanPc' = "outer"
    /\ UNCHANGED <<scanHtml, scanStart, scanRole, exceptScan>>

ScanNext == ScanBreak \/ ScanSkip \/ ScanEnter \/ ScanDepthStep \/ ScanPush

SpecScan == ScanInit /\ [][ScanNext]_vars

\* the loops run on: no iteration is postponed for ever
SpecScanLive == SpecScan /\ WF_vars(ScanNext)

\* the iterated scan returns what the scan returns as a whole
ScanAgrees == scanPc = "done" => scanBlocks = extractGrokBlocks(scanHtml)

(* ------------------------------------------------------------------ *)
(* C27: the balanced-tag scan terminates                                *)
(* ------------------------------------------------------------------ *)

\* an iteration of the outer loop that does not leave the loop moves pos
\* forward: to i + 1 past a needle without the marker token, to the end of
\* the scanned block otherwise
OuterAdvances ==
    /\ (scanPc = "outer" /\ scanPc' = "outer") =>
           /\ scanPos' = IndexOf(scanHtml, "needle", scanPos) + 1
           /\ scanPos' > scanPos
    /\ (scanPc = "inner" /\ scanPc' = "outer") =>
           /\ scanPos' = scanK'
           /\ scanPos' > scanPos
           /\ scanPos' >= scanBlocks'[Len(scanBlocks')].to

\* an iteration of the depth loop that finds a tag moves k past that tag;
\* the one that finds no closing tag puts k at the end of the document
InnerAdvances ==
    scanPc = "inner" =>
        \/ scanK' > scanK
        \/ /\ IndexOf(scanHtml, "divClose", scanK) = -1
           /\ scanK' = HtmlLength(scanHtml)
           /\ scanPc' = "outer"

\* the depth loop was left with an open container
LeftOpen == scanPc = "outer" /\ scanDepth > 0

\* C27: the balanced-tag scan terminates on every document: every iteration
\* of the outer loop that goes on advances pos strictly, every iteration of
\* the depth loop that finds a tag advances k strictly, and a marker
\* container without a matching closing tag gets a fragment that runs to the
\* end of the document, after which the scan stops.
C27_ScanTerminates ==
    /\ [][OuterAdvances /\ InnerAdvances]_vars
    /\ [](LeftOpen =>
              /\ scanBlocks[Len(scanBlocks)].to = HtmlLength(scanHtml)
              /\ MatchingClose(scanHtml, scanBlocks[Len(scanBlocks)].from) = -1
              /\ IndexOf(scanHtml, "needle", scanPos) = -1)
    /\ [][LeftOpen => scanPc' = "done"]_vars
    /\ <>(scanPc = "done")

\* a needle without the marker token was skipped, then a marker container
\* with a closed nested div and no closing tag of its own was scanned to
\* the end of the document, and the scan stopped
C27_Witness ==
    /\ scanPc = "done"
    /\ scanHtml = <<"div-other", "div-user", "div", "/div">>
    /\ Len(scanBlocks) = 1
    /\ scanDepth = 1
    /\ scanBlocks[1].from = 73
    /\ scanBlocks[1].to = 84

(***************************************************************************)
(* C25: the segments of the multipart body and the parts made of them      *)
(***************************************************************************)
\* the text after the root headers
MhtmlBody ==
    LET sep == SeparatorOf(MhtmlText)
    IN  Slice(MhtmlText, IndexOfSub(MhtmlText, sep, 0) + Len(sep), Len(MhtmlText))

\* the segments that follow an occurrence of the boundary marker
Segments == Tail(SplitOn(MhtmlBody, BoundaryMarker))

\* s is t with one line break, the longest there is, taken from its start
LeadingBreakRemoved(s, t) ==
    \/ t = <<CR, LF>> \o s
    \/ t = <<LF>> \o s
    \/ t = s /\ ~StartsWith(t, <<LF>>) /\ ~StartsWith(t, <<CR, LF>>)

\* s is t with one line break, the longest there is, taken from its end
TrailingBreakRemoved(s, t) ==
    \/ t = s \o <<CR, LF>>
    \/ t = s \o <<LF>> /\ ~EndsWith(s, <<CR>>)
    \/ t = s /\ ~EndsWith(t, <<LF>>)

\* the suffixes of t
Suffixes(t) == {SubSeq(t, a, Len(t)) : a \in 1..(Len(t) + 1)}

\* the segment without its one leading line break
SegmentText(seg) == CHOOSE s \in Suffixes(seg) : LeadingBreakRemoved(s, seg)

HasSeparator(text) == Contains(text, CrLfCrLf) \/ Contains(text, LfLf)

\* the body of the segment: what follows the header/body separator,
\* without its one trailing line break
SegmentBody(seg) ==
    LET text == SegmentText(seg)
        sep == SeparatorOf(text)
        raw == Slice(text, IndexOfSub(text, sep, 0) + Len(sep), Len(text))
    IN  CHOOSE b \in {SubSeq(raw, 1, n) : n \in 0..Len(raw)} : TrailingBreakRemoved(b, raw)

\* the bytes of a part whose headers are pHeaders and whose body is body
TransferDecoded(pHeaders, body) ==
    LET cte == ToLowerCase(HeaderGet(pHeaders, ContentTransferEncodingName))
    IN  IF Contains(cte, Base64Name) THEN base64ToBytes(body)[1]
        ELSE IF Contains(cte, QuotedPrintableName) THEN qpDecodeToBytes(body)
        ELSE latin1ToBytes(body)

\* the segments that the statement takes for parts: not the terminating
\* delimiter, and with a header/body separator
StatedPartSegments ==
    SelectSeq(Segments,
              LAMBDA seg : ~StartsWith(seg, <<"-", "-">>) /\ HasSeparator(SegmentText(seg)))

\* the segments whose text after the leading line break neither starts with
\* two hyphens nor lacks a header/body separator
CodePartSegments ==
    SelectSeq(Segments,
              LAMBDA seg : /\ ~StartsWith(SegmentText(seg), <<"-", "-">>)
                           /\ HasSeparator(SegmentText(seg)))

\* the parts are the segments segs, one part each, in document order, each
\* with the body of its segment
PartsAre(segs) ==
    /\ Len(mimeResult.parts) = Len(segs)
    /\ \A n \in 1..Len(segs) :
           mimeResult.parts[n].bytes
               = TransferDecoded(mimeResult.parts[n].headers, SegmentBody(segs[n]))

Split == mimePc = "parsed" /\ mimeResult.error = "none"

\* C25: the text before the first boundary marker never becomes a part, a
\* segment that begins with two hyphens right after the boundary never
\* becomes a part, and every other segment with a header/body separator
\* becomes exactly one part, in document order, whose body is the segment's
\* body with one leading line break of the segment and one trailing line
\* break removed and no other byte changed before transfer-decoding.
C25_SegmentsToParts == Split => PartsAre(StatedPartSegments)

\* what the splitter does: the test for the two hyphens is made on the
\* segment without its leading line break
C25_SegmentsAfterStrip == Split => PartsAre(CodePartSegments)

\* a preamble of the form of a part, a part whose body ends with two line
\* breaks and the terminating delimiter: one part, one line break shorter
C25_SplitSeen ==
    /\ Split
    /\ Len(Segments) = 2
    /\ Head(SplitOn(MhtmlBody, BoundaryMarker)) # <<>>
    /\ Segments[1] = SectionTwoBreaks
    /\ Segments[2] = SectionEnd
    /\ Len(mimeResult.parts) = 1
    /\ mimeResult.parts[1].bytes = latin1ToBytes(<<"x", LF>>)

\* a segment whose first header line starts with two hyphens was dropped
C25_DashHeaderDropped ==
    /\ Split
    /\ Segments = <<SectionDashHeader>>
    /\ mimeResult.parts = <<>>

(***************************************************************************)
(* C29: turn assembly conserves content and order                          *)
(***************************************************************************)
\* the number of model fragments at the head of its
RECURSIVE ModelRun(_)
ModelRun(its) ==
    IF its = <<>> \/ its[1].role = "user" THEN 0 ELSE 1 + ModelRun(Tail(its))

\* the Turns of a sequence of fragments that all count: one Turn for every
\* user fragment, and one with the placeholder question when a model
\* fragment comes first; a Turn's answer is the texts of the model fragments
\* up to the next user fragment, in order
RECURSIVE TurnsOf(_)
TurnsOf(its) ==
    IF its = <<>> THEN <<>>
    ELSE LET rest == IF its[1].role = "user" THEN Tail(its) ELSE its
             run == ModelRun(rest)
             question == IF its[1].role = "user" THEN its[1].text ELSE NoQuestion
             answers == [n \in 1..run |-> rest[n].text]
         IN  <<<<question, JoinedByBlankLine(answers)>>>>
             \o TurnsOf(SubSeq(rest, run + 1, Len(rest)))

NonEmpty(item) == item.text # <<>>

EffectiveHere(item) == Effective(conv, item)

Assembled == pc = "done" /\ conv \in {"qa", "grok"}

\* C29: the qa-text and Grok assemblers conserve content and order: there is
\* one Turn per user fragment with non-empty text, plus one when the first
\* non-empty fragment is a model fragment; the questions are the non-empty
\* user texts in input order; every non-empty model text is in the answer of
\* the Turn of the nearest preceding non-empty user fragment, or of the
\* placeholder Turn, and nowhere else.
C29_TurnsConserveAsStated == Assembled => pairs = TurnsOf(SelectSeq(items, NonEmpty))

\* C29, with the fragments the Grok assembler drops left out: the same, a
\* fragment whose text is a keyboard-shortcut hint counting as empty in the
\* Grok assembler
C29_TurnsConserve == Assembled => pairs = TurnsOf(SelectSeq(items, EffectiveHere))

\* an answer before any question, then a question and its answer: two
\* Turns, the placeholder Turn first
C29_Witness ==
    /\ Assembled
    /\ conv = "grok"
    /\ items = <<[role |-> "model", text |-> Ok], [role |-> "user", text |-> Hi],
                 [role |-> "model", text |-> Ok]>>
    /\ pairs = <<<<NoQuestion, Ok>>, <<Hi, Ok>>>>

(***************************************************************************)
(* The asset-extracting Markdown converter: the files it writes.  An       *)
(* element is [name, cls, src]; the resources map the keys of the          *)
(* attachments to their content types.                                     *)
(***************************************************************************)
\* String.prototype.padStart(n, "0")
RECURSIVE PadStart(_, _)
PadStart(s, n) == IF Len(s) >= n THEN s ELSE PadStart(<<"0">> \o s, n)

\* extMap[ctype] || ".bin"
ExtOf(ctype) ==
    CASE ctype = "image/jpeg" -> <<".", "j", "p", "g">>
      [] ctype = "image/png" -> <<".", "p", "n", "g">>
      [] ctype = "image/gif" -> <<".", "g", "i", "f">>
      [] ctype = "image/webp" -> <<".", "w", "e", "b", "p">>
      [] ctype = "image/svg+xml" -> <<".", "s", "v", "g">>
      [] OTHER -> <<".", "b", "i", "n">>

\* the attachments of the document: key and content type
Resources ==
    {[key |-> <<"a">>, ctype |-> "image/png"],
     [key |-> <<"b">>, ctype |-> "text/plain"],
     [key |-> <<"s">>, ctype |-> "image/svg+xml"]}

\* resources.get(key): the content types found, none or one
ResourcesGet(resources, key) == {r.ctype : r \in {x \in resources : x.key = key}}

\* a saver that takes a number for a reference it does not resolve
saveCidImageAlwaysCounts(resources, seq, srcValue) ==
    LET key == IF StartsWith(srcValue, CidPrefix) THEN SubSeq(srcValue, 5, Len(srcValue))
               ELSE srcValue
        item == ResourcesGet(resources, key)
    IN  IF item = {} THEN [files |-> <<>>, imageSeq |-> seq + 1]
        ELSE [files |-> <<<<"i", "m", "g">> \o PadStart(NumberToString(seq), 3)
                          \o ExtOf(CHOOSE c \in item : TRUE)>>,
              imageSeq |-> seq + 1]

\* saveCidImage: the file written, if any, and the counter after the call
saveCidImage(resources, seq, srcValue) ==
    LET key == IF StartsWith(srcValue, CidPrefix) THEN SubSeq(srcValue, 5, Len(srcValue))
               ELSE srcValue
        item == ResourcesGet(resources, key)
    IN  IF item = {} THEN [files |-> <<>>, imageSeq |-> seq]
        ELSE [files |-> <<<<"i", "m", "g">> \o PadStart(NumberToString(seq), 3)
                          \o ExtOf(CHOOSE c \in item : TRUE)>>,
              imageSeq |-> seq + 1]

\* saveInlineSvg: the file written and the counter after the call
saveInlineSvg(seq) ==
    [files |-> <<<<"s", "v", "g">> \o PadStart(NumberToString(seq), 3) \o <<".", "s", "v", "g">>>>,
     inlineSvgSeq |-> seq + 1]

IconHost == <<"i", "c", "o", "n", ".", "z", ".", "a", "i">>

DataSvgPrefix == <<"d", "a", "t", "a", ":", "i", "m", "a", "g", "e", "/", "s", "v", "g">>

\* the tests nodeToMd makes before it looks at the element's name
NodeDropped(node) ==
    \/ Contains(node.cls, <<"t", "o", "o", "l", "t", "i", "p">>)
    \/ node.name \in {"script", "style", "noscript", "button"}

\* the branch nodeToMd takes for an element
NodeBranch(node) ==
    IF NodeDropped(node) THEN "none"
    ELSE IF node.name = "svg" THEN "svg"
    ELSE IF node.name = "img"
         THEN IF node.src = <<>> \/ Contains(node.src, IconHost) THEN "none"
              ELSE IF StartsWith(node.src, CidPrefix) THEN "cid"
              ELSE IF StartsWith(node.src, DataSvgPrefix) THEN "svg"
              ELSE "none"
    ELSE "none"

MaxNodes == 3

ImgSources ==
    {<<>>,
     <<"c", "i", "d", ":", "a">>,
     <<"c", "i", "d", ":", "b">>,
     <<"c", "i", "d", ":", "s">>,
     <<"c", "i", "d", ":", "z">>,
     <<"d", "a", "t", "a", ":", "i", "m", "a", "g", "e", "/", "s", "v", "g", "+", "x", "m", "l", ",", "x">>,
     <<"c", "i", "d", ":", "i", "c", "o", "n", ".", "z", ".", "a", "i">>,
     <<"h", "t", "t", "p", "s", ":", "/", "/", "e", "/", "i", ".", "p", "n", "g">>}

Nodes ==
    {[name |-> "img", cls |-> <<>>, src |-> s] : s \in ImgSources}
    \cup {[name |-> "svg", cls |-> <<>>, src |-> <<>>],
          [name |-> "svg", cls |-> <<"t", "o", "o", "l", "t", "i", "p">>, src |-> <<>>],
          [name |-> "button", cls |-> <<>>, src |-> <<>>]}

\* new Converter(resources, assets, outDir)
AssetInit ==
    /\ assetNodes \in UNION {[1..n -> Nodes] : n \in 0..MaxNodes}
    /\ assetIdx = 1
    /\ imageSeq = 1
    /\ inlineSvgSeq = 1
    /\ assetFiles = <<>>
    /\ assetPc = "render"
    /\ Idle("asset")

AtNode(branch) ==
    /\ assetPc = "render"
    /\ assetIdx <= Len(assetNodes)
    /\ NodeBranch(assetNodes[assetIdx]) = branch

\* nodeToMd on an element that is not saved
NodeToMdNothing ==
    /\ AtNode("none")
    /\ assetIdx' = assetIdx + 1
    /\ UNCHANGED <<assetNodes, imageSeq, inlineSvgSeq, assetFiles, assetPc, exceptAsset>>

\* nodeToMd on an img whose src is a cid reference
NodeToMdCidImage ==
    /\ AtNode("cid")
    /\ LET saved == saveCidImage(Resources, imageSeq, assetNodes[assetIdx].src)
       IN  /\ imageSeq' = saved.imageSeq
           /\ assetFiles' = assetFiles \o saved.files
    /\ assetIdx' = assetIdx + 1
    /\ UNCHANGED <<assetNodes, inlineSvgSeq, assetPc, exceptAsset>>

\* nodeToMd on an svg element or an img with an SVG data URI
NodeToMdSvg ==
    /\ AtNode("svg")
    /\ LET saved == saveInlineSvg(inlineSvgSeq)
       IN  /\ inlineSvgSeq' = saved.inlineSvgSeq
           /\ assetFiles' = assetFiles \o saved.files
    /\ assetIdx' = assetIdx + 1
    /\ UNCHANGED <<assetNodes, imageSeq, assetPc, exceptAsset>>

AssetNext == NodeToMdNothing \/ NodeToMdCidImage \/ NodeToMdSvg

SpecAsset == AssetInit /\ [][AssetNext]_vars

(***************************************************************************)
(* C22: the names of the saved images and inline SVGs                      *)
(***************************************************************************)
\* the elements rendered so far
Rendered == SubSeq(assetNodes, 1, assetIdx - 1)

\* an img whose cid reference names an attachment
ResolvedCidImage(node) ==
    /\ NodeBranch(node) = "cid"
    /\ \E r \in Resources : node.src = CidPrefix \o r.key

SavedAsSvg(node) == NodeBranch(node) = "svg"

Saved(node) == ResolvedCidImage(node) \/ SavedAsSvg(node)

IsImgFile(file) == StartsWith(file, <<"i", "m", "g">>)

IsSvgFile(file) == StartsWith(file, <<"s", "v", "g">>)

\* the number k < 1000 written with three digits
ThreeDigits(k) == <<Digit(k \div 100), Digit((k \div 10) % 10), Digit(k % 10)>>

\* C22: saved images are named img001, img002, ... and saved inline SVGs
\* svg001.svg, svg002.svg, ... in the order they are met: each counter
\* starts at 1 and goes up by exactly 1 per file written, a cid reference
\* that does not resolve takes no number, and no two files written during
\* one conversion have the same name.
C22_AssetNames ==
    assetPc = "render" =>
        LET imgFiles == SelectSeq(assetFiles, IsImgFile)
            svgFiles == SelectSeq(assetFiles, IsSvgFile)
            savedNodes == SelectSeq(Rendered, Saved)
        IN  /\ Len(assetFiles) = Len(savedNodes)
            /\ \A n \in 1..Len(assetFiles) :
                   IsSvgFile(assetFiles[n]) <=> SavedAsSvg(savedNodes[n])
            /\ Len(imgFiles) + Len(svgFiles) = Len(assetFiles)
            /\ imageSeq = 1 + Len(imgFiles)
            /\ inlineSvgSeq = 1 + Len(svgFiles)
            /\ \A k \in 1..Len(imgFiles) :
                   SubSeq(imgFiles[k], 1, 6) = <<"i", "m", "g">> \o ThreeDigits(k)
            /\ \A k \in 1..Len(svgFiles) :
                   svgFiles[k] = <<"s", "v", "g">> \o ThreeDigits(k) \o <<".", "s", "v", "g">>
            /\ \A a, b \in 1..Len(assetFiles) : a # b => assetFiles[a] # assetFiles[b]

\* an image, a reference to no attachment and a second image were met: the
\* second image is img002
C22_Witness ==
    /\ assetPc = "render"
    /\ assetIdx = 4
    /\ assetNodes[1].src = <<"c", "i", "d", ":", "a">>
    /\ assetNodes[2].src = <<"c", "i", "d", ":", "z">>
    /\ assetNodes[3].src = <<"c", "i", "d", ":", "b">>
    /\ assetFiles = <<<<"i", "m", "g", "0", "0", "1", ".", "p", "n", "g">>,
                      <<"i", "m", "g", "0", "0", "2", ".", "b", "i", "n">>>>
    /\ imageSeq = 3

(***************************************************************************)
(* List rendering.  A child of the list element is [tag, content], the     *)
(* content being the joined Markdown of the child's own child nodes.       *)
(***************************************************************************)
\* out.replace(/\n[ \t]+/g, "\n"): a blank goes when only blanks lie between
\* it and the line feed before it
StripBlanksAfterLf(s) ==
    Select(s, {n \in 1..Len(s) :
                  ~(IsBlank(s[n]) /\ \E b \in 1..(n - 1) :
                                          /\ s[b] = LF
                                          /\ \A k \in (b + 1)..n : IsBlank(s[k]))})

\* normalizeMarkdown (mhtml2md-grok.js)
normalizeMarkdown(text) ==
    Trim(CollapseBlanks(CollapseBlankLines(StripBlanksAfterLf(
        StripBlanksBeforeLf(NormalizeLineBreaks(text))))))

\* "  ".repeat(n)
RECURSIVE Indent(_)
Indent(n) == IF n <= 0 THEN <<>> ELSE <<SP, SP>> \o Indent(n - 1)

\* the content of an item as the renderer fn takes it
ItemContent(fn, content) ==
    IF fn = "nodeToMarkdown" THEN normalizeMarkdown(content) ELSE Trim(content)

RECURSIVE ListLoopCountsAll(_, _, _, _, _)
\* a loop in which an empty item takes a number
ListLoopCountsAll(fn, name, depth, lis, num) ==
    IF lis = <<>> THEN <<>>
    ELSE LET content == ItemContent(fn, Head(lis).content)
         IN  IF content = <<>>
             THEN ListLoopCountsAll(fn, name, depth, Tail(lis), num + 1)
             ELSE IF name = "ol"
                  THEN <<Indent(depth) \o NumberToString(num) \o <<".", SP>> \o content>>
                       \o ListLoopCountsAll(fn, name, depth, Tail(lis), num + 1)
                  ELSE <<Indent(depth) \o <<"-", SP>> \o content>>
                       \o ListLoopCountsAll(fn, name, depth, Tail(lis), num)

RECURSIVE ListLoop(_, _, _, _, _)
\* the loop over the li children: the lines pushed from num on
ListLoop(fn, name, depth, lis, num) ==
    IF lis = <<>> THEN <<>>
    ELSE LET content == ItemContent(fn, Head(lis).content)
         IN  IF content = <<>> THEN ListLoop(fn, name, depth, Tail(lis), num)
             ELSE IF name = "ol"
                  THEN <<Indent(depth) \o NumberToString(num) \o <<".", SP>> \o content>>
                       \o ListLoop(fn, name, depth, Tail(lis), num + 1)
                  ELSE <<Indent(depth) \o <<"-", SP>> \o content>>
                       \o ListLoop(fn, name, depth, Tail(lis), num)

IsLi(child) == child.tag = "li"

\* the ul / ol branch of the three renderers
RenderList(fn, name, depth, children) ==
    LET lines == ListLoop(fn, name, depth, SelectSeq(children, IsLi), 1)
    IN  IF Len(lines) > 0 THEN Join(lines, <<LF>>) \o <<LF, LF>> ELSE <<>>

MaxLis == 3

MaxListDepth == 1

ListContents ==
    {<<>>, <<SP>>, <<"a">>, <<SP, "b">>, <<"c", LF, SP, SP, "1", ".", SP, "d", LF, LF>>}

ListChildren ==
    [tag : {"li"}, content : ListContents] \cup {[tag |-> "div", content |-> <<"a">>]}

ListInit ==
    /\ listFn \in {"glmNodeToMd", "nodeToMd", "nodeToMarkdown"}
    /\ listName \in {"ol", "ul"}
    /\ listDepth \in 0..MaxListDepth
    /\ listChildren \in UNION {[1..n -> ListChildren] : n \in 0..MaxLis}
    /\ listOut = <<>>
    /\ listPc = "node"
    /\ Idle("list")

\* the renderer meets the list element
RenderListNode ==
    /\ listPc = "node"
    /\ listOut' = RenderList(listFn, listName, listDepth, listChildren)
    /\ listPc' = "rendered"
    /\ UNCHANGED <<listFn, listName, listDepth, listChildren, exceptList>>

ListNext == RenderListNode

SpecList == ListInit /\ [][ListNext]_vars

(***************************************************************************)
(* C26: the numbering of an ordered list                                   *)
(***************************************************************************)
\* the li child has rendered content
HasContent(child) == IsLi(child) /\ ItemContent(listFn, child.content) # <<>>

\* the items that have rendered content, in document order
ShownItems == SelectSeq(listChildren, HasContent)

\* C26: an <ol> renders its items numbered 1, 2, ..., k without a gap, k
\* being the number of direct <li> children with non-empty rendered content;
\* an <li> with empty rendered content gives no line and takes no number; a
\* list whose items are all empty renders to the empty string.
C26_OrderedList ==
    (listPc = "rendered" /\ listName = "ol") =>
        /\ ShownItems = <<>> => listOut = <<>>
        /\ ShownItems # <<>> =>
               listOut = Join([k \in 1..Len(ShownItems) |->
                                  Indent(listDepth) \o NumberToString(k) \o <<".", SP>>
                                  \o ItemContent(listFn, ShownItems[k].content)],
                              <<LF>>) \o <<LF, LF>>

\* an item, an item of blanks only and a third item: the third is number 2
C26_Witness ==
    /\ listPc = "rendered"
    /\ listName = "ol"
    /\ listDepth = 0
    /\ listChildren = <<[tag |-> "li", content |-> <<"a">>],
                        [tag |-> "li", content |-> <<SP>>],
                        [tag |-> "li", content |-> <<SP, "b">>]>>
    /\ listOut = <<"1", ".", SP, "a", LF, "2", ".", SP, "b", LF, LF>>

(***************************************************************************)
(* C24: links to content-id resources, and preload links                   *)
(***************************************************************************)
CidLink(el) == el.tag = "link" /\ StartsWith(el.value, CidPrefix)

\* the element n of the document is still an element of the HTML written
StillThere(n) == \E k \in 1..Len(outElems) : outElems[k].origin = n

\* the style elements written in the place of the element n
StylesOf(n) == {k \in 1..Len(outStyles) : outStyles[k].origin = n}

\* the CSS of the part the link names, its own references rewritten
TargetCss(el) ==
    replaceCidUrlsInCss(cidParts,
                        Latin1Decode(CidMapGet(cidParts, normalizeCid(el.value)).bytes))

ResolvesToCss(el) ==
    /\ CidMapHas(cidParts, normalizeCid(el.value))
    /\ CidMapGet(cidParts, normalizeCid(el.value)).contentType = TextCss

\* every link to a content-id resource is gone; a style element holding
\* Css(el) stands for it when it names a text/css part, nothing when it
\* names no part; no link whose rel has the token preload is left
LinksHandled(Css(_)) ==
    /\ \A n \in 1..Len(docElems) :
           CidLink(docElems[n]) =>
               /\ ~StillThere(n)
               /\ ResolvesToCss(docElems[n]) =>
                      /\ Cardinality(StylesOf(n)) = 1
                      /\ \A k \in StylesOf(n) : outStyles[k].text = Css(docElems[n])
               /\ ~CidMapHas(cidParts, normalizeCid(docElems[n].value)) => StylesOf(n) = {}
    /\ \A n \in 1..Len(docElems) :
           (docElems[n].tag = "link" /\ RelIncludes(docElems[n].rel, Preload))
               => ~StillThere(n)

TargetCssWithoutStars(el) == RemoveStars(TargetCss(el))

\* C24: in the HTML written, a <link> whose href begins with "cid:" is
\* replaced by an inline <style> holding the target's CSS, with its own
\* cid: url() and @import references rewritten, when the reference resolves
\* to a text/css part, and is removed when the reference does not resolve;
\* no <link> whose rel contains preload remains.
C24_LinksRewritten == cidPc = "html" => LinksHandled(TargetCss)

\* what the converter writes: the same, the style holding the CSS without
\* any pair of asterisks
C24_LinksRewrittenWithoutStars == cidPc = "html" => LinksHandled(TargetCssWithoutStars)

\* a link to a style sheet with a comment that opens with "/**": the style
\* written opens with "/ */"
C24_CommentBroken ==
    /\ cidPc = "html"
    /\ Len(docElems) = 1
    /\ docElems[1].tag = "link"
    /\ docElems[1].value = CidD
    /\ Len(cidParts) = 2
    /\ cidParts[1].contentId = <<"<", "b", ">">>
    /\ Len(outStyles) = 1
    /\ outStyles[1].text =
           <<"/", " ", "*", "/", "@", "i", "m", "p", "o", "r", "t", " ", "u",
              "r", "l", "(", "'", "d", "a", "t", "a", ":", "i", "m", "a",
              "g", "e", "/", "p", "n", "g", ";", "b", "a", "s", "e", "6",
              "4", ",", "Q", "w", "=", "=", "'", ")", ";", "u", "r", "l",
              "(", "c", "i", "d", ":", "z", ")">>


(***************************************************************************)
(* Several conversions, one after another or at the same time.  A call of  *)
(* runConversion makes its own temporary directory, writes the input into  *)
(* it and runs the converter script as a process of its own; the script    *)
(* builds its resources map and its Converter, renders the document node   *)
(* by node, saving images into the directory of the output, and writes the *)
(* Markdown; runConversion reads the output and removes the directory.     *)
(* The processes of different calls take their steps in any order.         *)
(***************************************************************************)
MaxCalls == 2

\* the documents converted: file name, attachments (with their data) and
\* the elements of the page
InputA ==
    [name |-> <<"a">>,
     resources |-> {[key |-> <<"a">>, ctype |-> "image/png", data |-> <<"1">>]},
     nodes |-> <<[name |-> "img", cls |-> <<>>, src |-> <<"c", "i", "d", ":", "a">>],
                 [name |-> "svg", cls |-> <<>>, src |-> <<>>]>>]

InputB ==
    [name |-> <<"b">>,
     resources |-> {[key |-> <<"a">>, ctype |-> "image/gif", data |-> <<"2">>],
                    [key |-> <<"b">>, ctype |-> "text/plain", data |-> <<"3">>]},
     nodes |-> <<[name |-> "img", cls |-> <<>>, src |-> <<"c", "i", "d", ":", "z">>],
                 [name |-> "img", cls |-> <<>>, src |-> <<"c", "i", "d", ":", "b">>],
                 [name |-> "img", cls |-> <<>>, src |-> <<"c", "i", "d", ":", "a">>]>>]

\* another document saved under the name of the first
InputA2 ==
    [name |-> <<"a">>,
     resources |-> {[key |-> <<"b">>, ctype |-> "image/png", data |-> <<"4">>]},
     nodes |-> <<[name |-> "svg", cls |-> <<>>, src |-> <<>>],
                 [name |-> "img", cls |-> <<>>, src |-> <<"c", "i", "d", ":", "b">>]>>]

ShareInputs == {InputA, InputB, InputA2}

\* a temporary directory that is always the same one
SharedTmp(files) == {1}

\* fs.mkdtempSync: a directory that does not exist yet
MkdTemp(files) == {d \in 1..MaxCalls : \A f \in files : f.dir # d}

\* extByScript for a Markdown converter and an input name without an
\* extension: the name followed by ".md"
extByScript(inputName) == inputName \o <<".", "m", "d">>

\* new Converter(resources, assets, outDir): the two counters
NewConverter == [imageSeq |-> 1, inlineSvgSeq |-> 1]

\* fs.writeFileSync(path.join(dir, name), data): a file of that name in the
\* directory is replaced
WriteFile(files, dir, name, data) ==
    {f \in files : ~(f.dir = dir /\ f.name = name)}
    \cup {[dir |-> dir, name |-> name, data |-> data]}

\* the data of an attachment
ResourceData(resources, key) == (CHOOSE r \in resources : r.key = key).data

\* nodeToMd on one element, with the Converter of this call: the text
\* returned, the counters after it and the files written into the directory
NodeToMd(input, converter, node) ==
    LET branch == NodeBranch(node)
        img == saveCidImage(input.resources, converter.imageSeq, node.src)
        svg == saveInlineSvg(converter.inlineSvgSeq)
    IN  IF branch = "cid"
        THEN [text |-> IF img.files = <<>> THEN <<>>
                       ELSE <<"!", "[", "i", "m", "a", "g", "e", "]", "(">> \o img.files[1] \o <<")", LF, LF>>,
              converter |-> [converter EXCEPT !.imageSeq = img.imageSeq],
              written |-> {[name |-> img.files[n],
                            data |-> ResourceData(input.resources,
                                                  SubSeq(node.src, 5, Len(node.src)))]
                           : n \in 1..Len(img.files)}]
        ELSE IF branch = "svg"
        THEN [text |-> <<"!", "[", "s", "v", "g", "]", "(">> \o svg.files[1] \o <<")", LF, LF>>,
              converter |-> [converter EXCEPT !.inlineSvgSeq = svg.inlineSvgSeq],
              written |-> {[name |-> svg.files[1], data |-> <<"<", "s", "v", "g", ">">>]}]
        ELSE [text |-> <<>>, converter |-> converter, written |-> {}]

ShareInit ==
    /\ shareCalls = <<>>
    /\ shareDisk = {}
    /\ shareResults = <<>>
    /\ Idle("share")

\* runConversion up to the start of the script, and the script up to its new
\* Converter
RunConversionStart ==
    /\ Len(shareCalls) < MaxCalls
    /\ \E input \in ShareInputs, tmpDir \in MkdTemp(shareDisk) :
           /\ shareDisk' = WriteFile(shareDisk, tmpDir, input.name, input.name)
           /\ shareCalls' = Append(shareCalls,
                                   [input |-> input, tmpDir |-> tmpDir,
                                    converter |-> NewConverter, at |-> 1,
                                    md |-> <<>>, state |-> "script"])
    /\ UNCHANGED <<shareResults, exceptShare>>

\* the script renders the next element of its document
ScriptNodeToMd ==
    /\ \E c \in 1..Len(shareCalls) :
           LET call == shareCalls[c]
           IN  /\ call.state = "script"
               /\ call.at <= Len(call.input.nodes)
               /\ LET r == NodeToMd(call.input, call.converter, call.input.nodes[call.at])
                  IN  /\ shareCalls' = [shareCalls EXCEPT ![c].converter = r.converter,
                                                          ![c].md = call.md \o r.text,
                                                          ![c].at = call.at + 1]
                      /\ shareDisk' =
                             {f \in shareDisk :
                                  ~(f.dir = call.tmpDir /\ \E w \in r.written : w.name = f.name)}
                             \cup {[dir |-> call.tmpDir, name |-> w.name, data |-> w.data]
                                   : w \in r.written}
    /\ UNCHANGED <<shareResults, exceptShare>>

\* the script writes its Markdown to the output path and ends
ScriptWriteOutput ==
    /\ \E c \in 1..Len(shareCalls) :
           LET call == shareCalls[c]
           IN  /\ call.state = "script"
               /\ call.at > Len(call.input.nodes)
               /\ shareDisk' = WriteFile(shareDisk, call.tmpDir,
                                         extByScript(call.input.name), call.md)
               /\ shareCalls' = [shareCalls EXCEPT ![c].state = "written"]
    /\ UNCHANGED <<shareResults, exceptShare>>

\* runConversion after the script: read the output, remove the directory
RunConversionEnd ==
    /\ \E c \in 1..Len(shareCalls) :
           LET call == shareCalls[c]
               found == {f \in shareDisk : /\ f.dir = call.tmpDir
                                           /\ f.name = extByScript(call.input.name)}
           IN  /\ call.state = "written"
               /\ shareResults' =
                      Append(shareResults,
                             [input |-> call.input,
                              output |-> IF found = {} THEN <<"F", "a", "i", "l", "e", "d", " ", "t", "o", " ", "l", "o", "c", "a", "t", "e", " ", "o", "u", "t", "p", "u", "t", " ", "f", "i", "l", "e", ".">>
                                         ELSE (CHOOSE f \in found : TRUE).data])
               /\ shareDisk' = {f \in shareDisk : f.dir # call.tmpDir}
               /\ shareCalls' = [shareCalls EXCEPT ![c].state = "ended"]
    /\ UNCHANGED exceptShare

ShareNext ==
    RunConversionStart \/ ScriptNodeToMd \/ ScriptWriteOutput \/ RunConversionEnd

SpecShare == ShareInit /\ [][ShareNext]_vars

(***************************************************************************)
(* C21: conversions share no mutable state                                 *)
(***************************************************************************)
\* the Markdown of a document converted alone, by a Converter made for it
RECURSIVE MdFrom(_, _, _)
MdFrom(input, converter, at) ==
    IF at > Len(input.nodes) THEN <<>>
    ELSE LET r == NodeToMd(input, converter, input.nodes[at])
         IN  r.text \o MdFrom(input, r.converter, at + 1)

ConvertedAlone(input) == MdFrom(input, NewConverter, 1)

\* C21: the output of converting an input is the same whether the
\* conversion is the first one, follows other conversions or is interleaved
\* with conversions of other inputs: every call returns what the conversion
\* of its input alone gives, and while it runs its counters depend on its
\* own document only.
C21_NoSharedState ==
    /\ \A r \in 1..Len(shareResults) :
           shareResults[r].output = ConvertedAlone(shareResults[r].input)
    /\ \A c \in 1..Len(shareCalls) :
           LET call == shareCalls[c]
           IN  call.md \o MdFrom(call.input, call.converter, call.at)
                   = ConvertedAlone(call.input)

\* two documents of the same name: the conversion started second ended
\* first, and both calls returned the Markdown of their own document
C21_Witness ==
    /\ Len(shareResults) = 2
    /\ shareResults[1].input = InputA2
    /\ shareResults[2].input = InputA
    /\ shareCalls[1].input = InputA
    /\ shareResults[2].output = <<"!", "[", "i", "m", "a", "g", "e", "]", "(">> \o <<"i", "m", "g", "0", "0", "1", ".", "p", "n", "g">> \o <<")", LF, LF>> \o <<"!", "[", "s", "v", "g", "]", "(">> \o <<"s", "v", "g", "0", "0", "1", ".", "s", "v", "g">> \o <<")", LF, LF>>
    /\ shareResults[1].output = <<"!", "[", "s", "v", "g", "]", "(">> \o <<"s", "v", "g", "0", "0", "1", ".", "s", "v", "g">> \o <<")", LF, LF>> \o <<"!", "[", "i", "m", "a", "g", "e", "]", "(">> \o <<"i", "m", "g", "0", "0", "1", ".", "p", "n", "g">> \o <<")", LF, LF>>


(***************************************************************************)
(* C30: the output offered for download is that of the current selection   *)
(***************************************************************************)
\* the Blob in outputBlob was made from the input file and by the converter
\* that are selected now
OutputIsCurrent ==
    /\ inputFile # <<>>
    /\ outputOf = <<[file |-> inputFile[1].name,
                     cv |-> selectedConverter(selectedConverterId).id]>>

\* a step that downloads or saves the output
OutputSaved == written' # written

\* C30: whenever outputBlob is non-null it is the result of converting the
\* input file selected now with the converter selected now, and no download
\* or save writes the output of an earlier input or converter.
C30_OutputIsCurrent ==
    /\ [](outputBlob # "null" => OutputIsCurrent)
    /\ [][OutputSaved => OutputIsCurrent]_vars

\* a.mhtml was converted by mhtml2html, then b.mht was picked and the
\* Markdown converter selected: the output of a.mhtml was downloaded under
\* the name b.md
C30_StaleDownload ==
    /\ page = "suite"
    /\ outputOf = <<[file |-> <<"a", ".", "m", "h", "t", "m", "l">>, cv |-> "mhtml2html"]>>
    /\ inputFile # <<>>
    /\ inputFile[1].name = <<"b", ".", "m", "h", "t">>
    /\ selectedConverterId = "mhtml_to_md_general"
    /\ written = <<[by |-> "download", name |-> <<"b", ".", "m", "d">>]>>

====
